---- MODULE Spec2Model ----
(***************************************************************************)
(* A model of the XPath 1.0 parser and step engine of xslt-processor       *)
(* (src/src/xpath/xpath.ts).                                               *)
(*                                                                         *)
(*  - Texts are sequences of one-character strings.                        *)
(*  - Expression objects are records with a kind field k.                  *)
(*  - The shift/reduce parser runs as a state machine: one action for the  *)
(*    entry of xPathParse, one for the head of the token loop, one for     *)
(*    each call of xPathReduce and one for the code after the loop.        *)
(*  - The step engine xPathStep is a recursive operator applied to a       *)
(*    small document tree.                                                 *)
(***************************************************************************)
EXTENDS Integers, Sequences, FiniteSets, TLC

VARIABLES
    pc,               \* position of the running xPathParse call
    expression,       \* remaining input of the call (xPathParse: expression)
    cachekey,         \* text the call was made with
    axis,             \* axis argument of the call ("undefined" if absent)
    stack,            \* frame stack of the general parser
    ahead,            \* lookahead frame
    previous,         \* previously lexed frame
    done,             \* token loop flag
    result,           \* returned expression
    error,            \* thrown value
    xPathParseCache,  \* this.xPathParseCache
    cacheAtCall,      \* the cache as it was when the running call started
    calls,            \* number of xPathParse calls made so far
    parseCount,       \* iterations of the token loop of the running call
    reduceCount,      \* reductions made by the running call
    parsed,           \* first result returned for each text parsed with no axis
    doc,              \* document tree the step engine runs on
    input,            \* node the location path is evaluated from
    scope,            \* variable scope of the context: the value of $n
    steps,            \* steps of the location path under evaluation
    nodesFull,        \* nodes collected with returnOnFirstMatch = false
    nodesFirst,       \* nodes collected with returnOnFirstMatch = true
    evalpc,           \* position of the evaluation scenario
    sortList,         \* xPathSort: the items (node, keys) before sorting
    sortedNodes,      \* xPathSort: context.nodeList after the call
    sortpc,           \* position of the sorting scenario
    sort,             \* xPathSort: the sort argument, one entry per key
    siblingPosition,  \* node.siblingPosition of the nodes of the context
    position,         \* context.position
    matchStack,       \* xPathMatchStack: the stack argument
    matchPattern,     \* xPathMatchStack: the pattern argument
    matchResult,      \* xPathMatchStack: the returned match
    matchpc,          \* position of the matching scenario
    xml,              \* xmlParse: the text
    scanIndex,        \* xmlParse: i
    scanStart,        \* xmlParse: start
    inTag,            \* xmlParse: tag
    quotes,           \* xmlParse: quotes
    doublequotes,     \* xmlParse: doublequotes
    elementStack,     \* xmlParse: stack
    parentNode,       \* xmlParse: parent
    xmlNodes,         \* the nodes created, in the order of their creation
    xmlpc             \* position of the running xmlParse call

parseVars == <<pc, expression, cachekey, axis, stack, ahead, previous, done,
               result, error, xPathParseCache, cacheAtCall, calls, parseCount,
               reduceCount, parsed>>
stepVars == <<doc, input, scope, steps, nodesFull, nodesFirst, evalpc>>
utilVars == <<sortList, sortedNodes, sortpc, sort, siblingPosition, position,
              matchStack, matchPattern, matchResult, matchpc>>
xmlVars == <<xml, scanIndex, scanStart, inTag, quotes, doublequotes, elementStack,
             parentNode, xmlNodes, xmlpc>>
vars == <<parseVars, stepVars, utilVars, xmlVars>>

----------------------------------------------------------------------------
(* Generic helpers.                                                        *)

Max(a, b) == IF a >= b THEN a ELSE b

Min(a, b) == IF a <= b THEN a ELSE b

\* substr that takes nothing off the text.
SubstrWhole(s, n) == s

\* s.substr(n) with a 0-based n: the text without its first n characters.
Substr(s, n) == SubSeq(s, n + 1, Len(s))

Reverse(s) == [i \in 1..Len(s) |-> s[Len(s) + 1 - i]]

\* Whether p is a prefix of s.
IsPrefix(p, s) == Len(p) <= Len(s) /\ SubSeq(s, 1, Len(p)) = p

Null == [tag |-> "null"]

----------------------------------------------------------------------------
(* Character classes of the regular expressions.                           *)

Letter == {"a", "b", "c", "d", "e", "f", "g", "h", "i", "j", "k", "l", "m",
           "n", "o", "p", "q", "r", "s", "t", "u", "v", "w", "x", "y", "z"}

Digit == {"0", "1", "2", "3", "4", "5", "6", "7", "8", "9"}

\* \w
WordChar == Letter \cup Digit \cup {"_"}

\* \s
SpaceChar == {" "}

NCNameStartChar == Letter \cup {"_"}

NCNameChar == Letter \cup Digit \cup {".", "-", "_"}

\* Length of the longest prefix of s whose characters are all in class.
RECURSIVE RunLen(_, _)
RunLen(s, class) ==
    IF s /= <<>> /\ Head(s) \in class THEN 1 + RunLen(Tail(s), class) ELSE 0

\* Length of the match of XML_NC_NAME at the start of s (0: no match).
NCNameLen(s) ==
    IF s /= <<>> /\ Head(s) \in NCNameStartChar
    THEN 1 + RunLen(Tail(s), NCNameChar)
    ELSE 0

----------------------------------------------------------------------------
(* Token rules (tokens.ts): tag, label, precedence, associativity.  A      *)
(* precedence of 0 stands for a rule that declares none.                   *)

TokenRule(tag, label, prec, left) ==
    [tag |-> tag, label |-> label, prec |-> prec, left |-> left]

\* The rules in the order the lexer tries them.
xPathTokenRules ==
    << TokenRule("TOK_DSLASH", "//", 19, FALSE),
       TokenRule("TOK_SLASH", "/", 30, FALSE),
       TokenRule("TOK_DDOT", "..", 34, FALSE),
       TokenRule("TOK_DOT", ".", 34, FALSE),
       TokenRule("TOK_AXISNAME", "[axis]", 0, FALSE),
       TokenRule("TOK_AXIS", "::", 20, FALSE),
       TokenRule("TOK_PARENO", "(", 34, FALSE),
       TokenRule("TOK_PARENC", ")", 0, FALSE),
       TokenRule("TOK_NODEO", "[nodetest-start]", 0, FALSE),
       TokenRule("TOK_BRACKO", "[", 32, FALSE),
       TokenRule("TOK_BRACKC", "]", 0, FALSE),
       TokenRule("TOK_AT", "@", 34, FALSE),
       TokenRule("TOK_COMMA", ",", 0, FALSE),
       TokenRule("TOK_OR", "or", 10, FALSE),
       TokenRule("TOK_AND", "and", 11, FALSE),
       TokenRule("TOK_NEQ", "!=", 12, FALSE),
       TokenRule("TOK_EQ", "=", 12, FALSE),
       TokenRule("TOK_GE", ">=", 13, FALSE),
       TokenRule("TOK_GT", ">", 13, FALSE),
       TokenRule("TOK_LE", "<=", 13, FALSE),
       TokenRule("TOK_LT", "<", 13, FALSE),
       TokenRule("TOK_PLUS", "+", 14, TRUE),
       TokenRule("TOK_MINUS", "-", 14, TRUE),
       TokenRule("TOK_ASTERISK", "*", 15, TRUE),
       TokenRule("TOK_PIPE", "|", 17, FALSE),
       TokenRule("TOK_MOD", "mod", 15, TRUE),
       TokenRule("TOK_DIV", "div", 15, TRUE),
       TokenRule("TOK_LITERALQ", "[litq]", 20, FALSE),
       TokenRule("TOK_LITERALQQ", "[litqq]", 20, FALSE),
       TokenRule("TOK_NUMBER", "[number]", 35, FALSE),
       TokenRule("TOK_QNAME", "[qname]", 0, FALSE),
       TokenRule("TOK_NCNAME", "[ncname]", 0, FALSE),
       TokenRule("TOK_COLON", ":", 1000, FALSE),
       TokenRule("TOK_DOLLAR", "$", 0, FALSE) >>

TokenTags == {xPathTokenRules[i].tag : i \in 1..Len(xPathTokenRules)}

\* The rule of each token tag.
TokenRuleTable ==
    [tag \in TokenTags |->
        CHOOSE r \in {xPathTokenRules[i] : i \in 1..Len(xPathTokenRules)} : r.tag = tag]

TokenRuleOf(tag) == TokenRuleTable[tag]

\* The values of xPathAxis, in the order they are joined into the
\* regular expression of TOK_AXISNAME.
AxisNames ==
    << <<"a", "n", "c", "e", "s", "t", "o", "r", "-", "o", "r", "-", "s", "e", "l", "f">>,
       <<"a", "n", "c", "e", "s", "t", "o", "r">>,
       <<"a", "t", "t", "r", "i", "b", "u", "t", "e">>,
       <<"c", "h", "i", "l", "d">>,
       <<"d", "e", "s", "c", "e", "n", "d", "a", "n", "t", "-", "o", "r", "-", "s", "e", "l", "f">>,
       <<"d", "e", "s", "c", "e", "n", "d", "a", "n", "t">>,
       <<"f", "o", "l", "l", "o", "w", "i", "n", "g", "-", "s", "i", "b", "l", "i", "n", "g">>,
       <<"f", "o", "l", "l", "o", "w", "i", "n", "g">>,
       <<"n", "a", "m", "e", "s", "p", "a", "c", "e">>,
       <<"p", "a", "r", "e", "n", "t">>,
       <<"p", "r", "e", "c", "e", "d", "i", "n", "g", "-", "s", "i", "b", "l", "i", "n", "g">>,
       <<"p", "r", "e", "c", "e", "d", "i", "n", "g">>,
       <<"s", "e", "l", "f">>,
       <<"s", "e", "l", "f", "-", "a", "n", "d", "-", "s", "i", "b", "l", "i", "n", "g", "s">> >>

\* The alternatives of the regular expression of TOK_NODEO.
NodeTypeNames ==
    << <<"p", "r", "o", "c", "e", "s", "s", "i", "n", "g", "-", "i", "n", "s", "t", "r", "u", "c", "t", "i", "o", "n">>,
       <<"c", "o", "m", "m", "e", "n", "t">>,
       <<"t", "e", "x", "t">>,
       <<"n", "o", "d", "e">> >>

\* ^lit
LitLen(s, lit) == IF IsPrefix(lit, s) THEN Len(lit) ELSE 0

\* ^kw\b : the keyword, not followed by a word character.
KeywordLen(s, kw) ==
    IF IsPrefix(kw, s) /\ (Len(s) = Len(kw) \/ s[Len(kw) + 1] \notin WordChar)
    THEN Len(kw)
    ELSE 0

\* ^(n1|n2|...)suffix with the suffix consumed (consume) or only looked at:
\* the first alternative, in order, that is followed by the suffix.
RECURSIVE AltLen(_, _, _, _, _)
AltLen(s, names, i, suffix, consume) ==
    IF i > Len(names) THEN 0
    ELSE IF IsPrefix(names[i] \o suffix, s)
         THEN Len(names[i]) + (IF consume THEN Len(suffix) ELSE 0)
         ELSE AltLen(s, names, i + 1, suffix, consume)

\* Length of the longest prefix of s that does not contain the character q.
RECURSIVE RunLenNot(_, _)
RunLenNot(s, q) ==
    IF s /= <<>> /\ Head(s) /= q THEN 1 + RunLenNot(Tail(s), q) ELSE 0

\* ^q[^q]*q
QuotedLen(s, q) ==
    IF s /= <<>> /\ Head(s) = q
    THEN LET n == RunLenNot(Tail(s), q)
         IN  IF Len(s) >= n + 2 THEN n + 2 ELSE 0
    ELSE 0

\* ^\d+(\.\d*)?
NumberLen(s) ==
    LET d == RunLen(s, Digit)
    IN  IF d = 0 THEN 0
        ELSE IF Len(s) > d /\ s[d + 1] = "."
             THEN d + 1 + RunLen(Substr(s, d + 1), Digit)
             ELSE d

\* ^(NCName:)?NCName
QNameLen(s) ==
    LET n1 == NCNameLen(s)
        n2 == IF n1 > 0 /\ Len(s) > n1 /\ s[n1 + 1] = ":"
              THEN NCNameLen(Substr(s, n1 + 1))
              ELSE 0
    IN  IF n2 > 0 THEN n1 + 1 + n2 ELSE n1

\* Length of the match of the rule's regular expression at the start of s
\* (re.exec(expression)[0].length), 0 when it does not match.
TokenMatchLen(tag, s) ==
    CASE tag = "TOK_DSLASH" -> LitLen(s, <<"/", "/">>)
      [] tag = "TOK_SLASH" -> LitLen(s, <<"/">>)
      [] tag = "TOK_DDOT" -> LitLen(s, <<".", ".">>)
      [] tag = "TOK_DOT" -> LitLen(s, <<".">>)
      [] tag = "TOK_AXISNAME" -> AltLen(s, AxisNames, 1, <<":", ":">>, FALSE)
      [] tag = "TOK_AXIS" -> LitLen(s, <<":", ":">>)
      [] tag = "TOK_PARENO" -> LitLen(s, <<"(">>)
      [] tag = "TOK_PARENC" -> LitLen(s, <<")">>)
      [] tag = "TOK_NODEO" -> AltLen(s, NodeTypeNames, 1, <<"(">>, TRUE)
      [] tag = "TOK_BRACKO" -> LitLen(s, <<"[">>)
      [] tag = "TOK_BRACKC" -> LitLen(s, <<"]">>)
      [] tag = "TOK_AT" -> LitLen(s, <<"@">>)
      [] tag = "TOK_COMMA" -> LitLen(s, <<",">>)
      [] tag = "TOK_OR" -> KeywordLen(s, <<"o", "r">>)
      [] tag = "TOK_AND" -> KeywordLen(s, <<"a", "n", "d">>)
      [] tag = "TOK_NEQ" -> LitLen(s, <<"!", "=">>)
      [] tag = "TOK_EQ" -> LitLen(s, <<"=">>)
      [] tag = "TOK_GE" -> LitLen(s, <<">", "=">>)
      [] tag = "TOK_GT" -> LitLen(s, <<">">>)
      [] tag = "TOK_LE" -> LitLen(s, <<"<", "=">>)
      [] tag = "TOK_LT" -> LitLen(s, <<"<">>)
      [] tag = "TOK_PLUS" -> LitLen(s, <<"+">>)
      [] tag = "TOK_MINUS" -> LitLen(s, <<"-">>)
      [] tag = "TOK_ASTERISK" -> LitLen(s, <<"*">>)
      [] tag = "TOK_PIPE" -> LitLen(s, <<"|">>)
      [] tag = "TOK_MOD" -> KeywordLen(s, <<"m", "o", "d">>)
      [] tag = "TOK_DIV" -> KeywordLen(s, <<"d", "i", "v">>)
      [] tag = "TOK_LITERALQ" -> QuotedLen(s, "'")
      [] tag = "TOK_LITERALQQ" -> QuotedLen(s, "\"")
      [] tag = "TOK_NUMBER" -> NumberLen(s)
      [] tag = "TOK_QNAME" -> QNameLen(s)
      [] tag = "TOK_NCNAME" -> NCNameLen(s)
      [] tag = "TOK_COLON" -> LitLen(s, <<":">>)
      [] tag = "TOK_DOLLAR" -> LitLen(s, <<"$">>)

\* The loop of findXPathRuleForExpression: the first rule, in table order,
\* whose match is non-empty; 0 when there is none.
RECURSIVE FirstMatchingRule(_, _)
FirstMatchingRule(s, i) ==
    IF i > Len(xPathTokenRules) THEN 0
    ELSE IF TokenMatchLen(xPathTokenRules[i].tag, s) > 0 THEN i
         ELSE FirstMatchingRule(s, i + 1)

\* The look-back of findXPathRuleForExpression: whether an operator keyword
\* is turned into a name.
DemoteKeywordNotAfterDollar(tag, prev) ==
    /\ tag \in {"TOK_DIV", "TOK_MOD", "TOK_AND", "TOK_OR"}
    /\ \/ prev.tag = "null"
       \/ prev.tag \in {"TOK_AT", "TOK_DSLASH", "TOK_SLASH", "TOK_AXIS"}

DemoteKeyword(tag, prev) ==
    /\ tag \in {"TOK_DIV", "TOK_MOD", "TOK_AND", "TOK_OR"}
    /\ \/ prev.tag = "null"
       \/ prev.tag \in {"TOK_AT", "TOK_DSLASH", "TOK_SLASH", "TOK_AXIS", "TOK_DOLLAR"}

\* findXPathRuleForExpression: the rule (its tag, "null" when no rule
\* matches) and the matched text.
findXPathRuleForExpression(s, prev) ==
    LET i == FirstMatchingRule(s, 1)
    IN  IF i = 0 THEN [rule |-> "null", match |-> <<>>]
        ELSE LET tag == xPathTokenRules[i].tag
             IN  [rule |-> IF DemoteKeyword(tag, prev) THEN "TOK_QNAME" ELSE tag,
                  match |-> SubSeq(s, 1, TokenMatchLen(tag, s))]

\* expression.replace(/^\s*/, '')
SkipSpace(s) == Substr(s, RunLen(s, SpaceChar))

----------------------------------------------------------------------------
(* Non-terminals (xpath-grammar-rules.ts) and the productions of the       *)
(* grammar (xPathGrammarRules): target, pattern, precedence, semantic      *)
(* value factory, associativity flag.                                      *)

xPathNonTerminals ==
    << "XPathLocationPath", "XPathRelativeLocationPath",
       "XPathAbsoluteLocationPath", "XPathStep", "XPathNodeTest",
       "XPathPredicate", "XPathLiteral", "XPathExpr", "XPathPrimaryExpr",
       "XPathVariableReference", "XPathNumber", "XPathFunctionCall",
       "XPathArgumentRemainder", "XPathPathExpr", "XPathUnionExpr",
       "XPathFilterExpr", "XPathDigits" >>

NonTerminalTags == {xPathNonTerminals[i] : i \in 1..Len(xPathNonTerminals)}

\* tag.label
Label(tag) ==
    CASE tag \in TokenTags -> TokenRuleOf(tag).label
      [] tag = "XPathLocationPath" -> "LocationPath"
      [] tag = "XPathRelativeLocationPath" -> "RelativeLocationPath"
      [] tag = "XPathAbsoluteLocationPath" -> "AbsoluteLocationPath"
      [] tag = "XPathStep" -> "Step"
      [] tag = "XPathNodeTest" -> "NodeTest"
      [] tag = "XPathPredicate" -> "Predicate"
      [] tag = "XPathLiteral" -> "Literal"
      [] tag = "XPathExpr" -> "Expr"
      [] tag = "XPathPrimaryExpr" -> "PrimaryExpr"
      [] tag = "XPathVariableReference" -> "Variablereference"
      [] tag = "XPathNumber" -> "Number"
      [] tag = "XPathFunctionCall" -> "FunctionCall"
      [] tag = "XPathArgumentRemainder" -> "ArgumentRemainder"
      [] tag = "XPathPathExpr" -> "PathExpr"
      [] tag = "XPathUnionExpr" -> "UnionExpr"
      [] tag = "XPathFilterExpr" -> "FilterExpr"
      [] tag = "XPathDigits" -> "Digits"

\* tag.prec of a pattern element: 0 (none declared) for non-terminals and
\* quantifier markers.
TagPrec(tag) == IF tag \in TokenTags THEN TokenRuleOf(tag).prec ELSE 0

\* tag.left
TagLeft(tag) == IF tag \in TokenTags THEN TokenRuleOf(tag).left ELSE FALSE

Quantifiers == {"Q_MM", "Q_01", "Q_1M"}

GrammarRule(target, pattern, prec, make, left) ==
    [target |-> target, pattern |-> pattern, prec |-> prec, make |-> make,
     left |-> left]

xPathGrammarRules ==
    << GrammarRule("XPathLocationPath", <<"XPathRelativeLocationPath">>, 18, "passExpr", FALSE),
       GrammarRule("XPathLocationPath", <<"XPathAbsoluteLocationPath">>, 18, "passExpr", FALSE),
       GrammarRule("XPathAbsoluteLocationPath", <<"TOK_SLASH", "XPathRelativeLocationPath">>, 18, "makeLocationExpr1", FALSE),
       GrammarRule("XPathAbsoluteLocationPath", <<"TOK_DSLASH", "XPathRelativeLocationPath">>, 18, "makeLocationExpr2", FALSE),
       GrammarRule("XPathAbsoluteLocationPath", <<"TOK_SLASH">>, 0, "makeLocationExpr3", FALSE),
       GrammarRule("XPathAbsoluteLocationPath", <<"TOK_DSLASH">>, 0, "makeLocationExpr4", FALSE),
       GrammarRule("XPathRelativeLocationPath", <<"XPathStep">>, 31, "makeLocationExpr5", FALSE),
       GrammarRule("XPathRelativeLocationPath", <<"XPathRelativeLocationPath", "TOK_SLASH", "XPathStep">>, 31, "makeLocationExpr6", FALSE),
       GrammarRule("XPathRelativeLocationPath", <<"XPathRelativeLocationPath", "TOK_DSLASH", "XPathStep">>, 31, "makeLocationExpr7", FALSE),
       GrammarRule("XPathStep", <<"TOK_DOT">>, 33, "makeStepExpr1", FALSE),
       GrammarRule("XPathStep", <<"TOK_DDOT">>, 33, "makeStepExpr2", FALSE),
       GrammarRule("XPathStep", <<"TOK_AXISNAME", "TOK_AXIS", "XPathNodeTest">>, 33, "makeStepExpr3", FALSE),
       GrammarRule("XPathStep", <<"TOK_AT", "XPathNodeTest">>, 33, "makeStepExpr4", FALSE),
       GrammarRule("XPathStep", <<"XPathNodeTest">>, 33, "makeStepExpr5", FALSE),
       GrammarRule("XPathStep", <<"XPathStep", "XPathPredicate">>, 33, "makeStepExpr6", FALSE),
       GrammarRule("XPathNodeTest", <<"TOK_ASTERISK">>, 33, "makeNodeTestExpr1", FALSE),
       GrammarRule("XPathNodeTest", <<"TOK_NCNAME", "TOK_COLON", "TOK_ASTERISK">>, 33, "makeNodeTestExpr2", FALSE),
       GrammarRule("XPathNodeTest", <<"TOK_QNAME">>, 33, "makeNodeTestExpr3", FALSE),
       GrammarRule("XPathNodeTest", <<"TOK_NODEO", "TOK_PARENC">>, 33, "makeNodeTestExpr4", FALSE),
       GrammarRule("XPathNodeTest", <<"TOK_NODEO", "XPathLiteral", "TOK_PARENC">>, 33, "makeNodeTestExpr5", FALSE),
       GrammarRule("XPathPredicate", <<"TOK_BRACKO", "XPathExpr", "TOK_BRACKC">>, 33, "makePredicateExpr", FALSE),
       GrammarRule("XPathPrimaryExpr", <<"XPathVariableReference">>, 33, "passExpr", FALSE),
       GrammarRule("XPathPrimaryExpr", <<"TOK_PARENO", "XPathExpr", "TOK_PARENC">>, 33, "makePrimaryExpr", FALSE),
       GrammarRule("XPathPrimaryExpr", <<"XPathLiteral">>, 30, "passExpr", FALSE),
       GrammarRule("XPathPrimaryExpr", <<"XPathNumber">>, 30, "passExpr", FALSE),
       GrammarRule("XPathPrimaryExpr", <<"XPathFunctionCall">>, 31, "passExpr", FALSE),
       GrammarRule("XPathFunctionCall", <<"TOK_QNAME", "TOK_PARENO", "TOK_PARENC">>, -1, "makeFunctionCallExpr1", FALSE),
       GrammarRule("XPathFunctionCall", <<"TOK_QNAME", "TOK_PARENO", "XPathExpr", "XPathArgumentRemainder", "Q_MM", "TOK_PARENC">>, -1, "makeFunctionCallExpr2", FALSE),
       GrammarRule("XPathArgumentRemainder", <<"TOK_COMMA", "XPathExpr">>, -1, "makeArgumentExpr", FALSE),
       GrammarRule("XPathUnionExpr", <<"XPathPathExpr">>, 20, "passExpr", FALSE),
       GrammarRule("XPathUnionExpr", <<"XPathUnionExpr", "TOK_PIPE", "XPathPathExpr">>, 20, "makeUnionExpr", FALSE),
       GrammarRule("XPathPathExpr", <<"XPathLocationPath">>, 20, "passExpr", FALSE),
       GrammarRule("XPathPathExpr", <<"XPathFilterExpr">>, 19, "passExpr", FALSE),
       GrammarRule("XPathPathExpr", <<"XPathFilterExpr", "TOK_SLASH", "XPathRelativeLocationPath">>, 19, "makePathExpr1", FALSE),
       GrammarRule("XPathPathExpr", <<"XPathFilterExpr", "TOK_DSLASH", "XPathRelativeLocationPath">>, 19, "makePathExpr2", FALSE),
       GrammarRule("XPathFilterExpr", <<"XPathPrimaryExpr", "XPathPredicate", "Q_MM">>, 31, "makeFilterExpr", FALSE),
       GrammarRule("XPathExpr", <<"XPathPrimaryExpr">>, 16, "passExpr", FALSE),
       GrammarRule("XPathExpr", <<"XPathUnionExpr">>, 16, "passExpr", FALSE),
       GrammarRule("XPathExpr", <<"TOK_MINUS", "XPathExpr">>, -1, "makeUnaryMinusExpr", FALSE),
       GrammarRule("XPathExpr", <<"XPathExpr", "TOK_OR", "XPathExpr">>, -1, "makeBinaryExpr", FALSE),
       GrammarRule("XPathExpr", <<"XPathExpr", "TOK_AND", "XPathExpr">>, -1, "makeBinaryExpr", FALSE),
       GrammarRule("XPathExpr", <<"XPathExpr", "TOK_EQ", "XPathExpr">>, -1, "makeBinaryExpr", FALSE),
       GrammarRule("XPathExpr", <<"XPathExpr", "TOK_NEQ", "XPathExpr">>, -1, "makeBinaryExpr", FALSE),
       GrammarRule("XPathExpr", <<"XPathExpr", "TOK_LT", "XPathExpr">>, -1, "makeBinaryExpr", FALSE),
       GrammarRule("XPathExpr", <<"XPathExpr", "TOK_LE", "XPathExpr">>, -1, "makeBinaryExpr", FALSE),
       GrammarRule("XPathExpr", <<"XPathExpr", "TOK_GT", "XPathExpr">>, -1, "makeBinaryExpr", FALSE),
       GrammarRule("XPathExpr", <<"XPathExpr", "TOK_GE", "XPathExpr">>, -1, "makeBinaryExpr", FALSE),
       GrammarRule("XPathExpr", <<"XPathExpr", "TOK_PLUS", "XPathExpr">>, -1, "makeBinaryExpr", TRUE),
       GrammarRule("XPathExpr", <<"XPathExpr", "TOK_MINUS", "XPathExpr">>, -1, "makeBinaryExpr", TRUE),
       GrammarRule("XPathExpr", <<"XPathExpr", "TOK_ASTERISK", "XPathExpr">>, -1, "makeBinaryExpr", TRUE),
       GrammarRule("XPathExpr", <<"XPathExpr", "TOK_DIV", "XPathExpr">>, -1, "makeBinaryExpr", TRUE),
       GrammarRule("XPathExpr", <<"XPathExpr", "TOK_MOD", "XPathExpr">>, -1, "makeBinaryExpr", TRUE),
       GrammarRule("XPathLiteral", <<"TOK_LITERALQ">>, -1, "makeLiteralExpr", FALSE),
       GrammarRule("XPathLiteral", <<"TOK_LITERALQQ">>, -1, "makeLiteralExpr", FALSE),
       GrammarRule("XPathNumber", <<"TOK_NUMBER">>, -1, "makeNumberExpr", FALSE),
       GrammarRule("XPathVariableReference", <<"TOK_DOLLAR", "TOK_QNAME">>, 200, "makeVariableReference", FALSE) >>

----------------------------------------------------------------------------
(* Expression objects (expressions/*.ts, node-tests/*.ts) as records.      *)

\* The values of xPathAxis.
xPathAxis ==
    [ANCESTOR_OR_SELF |-> AxisNames[1], ANCESTOR |-> AxisNames[2],
     ATTRIBUTE |-> AxisNames[3], CHILD |-> AxisNames[4],
     DESCENDANT_OR_SELF |-> AxisNames[5], DESCENDANT |-> AxisNames[6],
     FOLLOWING_SIBLING |-> AxisNames[7], FOLLOWING |-> AxisNames[8],
     NAMESPACE |-> AxisNames[9], PARENT |-> AxisNames[10],
     PRECEDING_SIBLING |-> AxisNames[11], PRECEDING |-> AxisNames[12],
     SELF |-> AxisNames[13], SELF_AND_SIBLINGS |-> AxisNames[14]]

\* An absent axis argument.
Undefined == <<>>

TokenExpr(m) == [k |-> "TokenExpr", value |-> m]

NodeTestAny == [k |-> "NodeTestAny"]

NodeTestElementOrAttribute == [k |-> "NodeTestElementOrAttribute"]

NodeTestText == [k |-> "NodeTestText"]

NodeTestComment == [k |-> "NodeTestComment"]

NodeTestNC(nsprefix) == [k |-> "NodeTestNC", nsprefix |-> nsprefix]

NodeTestName(name) == [k |-> "NodeTestName", name |-> name]

NodeTestPI(target) == [k |-> "NodeTestPI", target |-> target]

StepExpr(ax, nodeTest) ==
    [k |-> "StepExpr", axis |-> ax, nodeTest |-> nodeTest, predicate |-> <<>>,
     hasPositionalPredicate |-> FALSE]

LocationExpr == [k |-> "LocationExpr", absolute |-> FALSE, steps |-> <<>>]

PredicateExpr(expr) == [k |-> "PredicateExpr", expr |-> expr]

FunctionCallExpr(name) == [k |-> "FunctionCallExpr", name |-> name, args |-> <<>>]

UnionExpr(expr1, expr2) == [k |-> "UnionExpr", expr1 |-> expr1, expr2 |-> expr2]

PathExpr(filter, rel) == [k |-> "PathExpr", filter |-> filter, rel |-> rel]

FilterExpr(expr, predicate) ==
    [k |-> "FilterExpr", expr |-> expr, predicate |-> predicate]

UnaryMinusExpr(expr) == [k |-> "UnaryMinusExpr", expr |-> expr]

BinaryExpr(expr1, op, expr2) ==
    [k |-> "BinaryExpr", expr1 |-> expr1, op |-> op, expr2 |-> expr2]

LiteralExpr(value) == [k |-> "LiteralExpr", value |-> value]

NumberExpr(value) == [k |-> "NumberExpr", value |-> value]

VariableExpr(name) == [k |-> "VariableExpr", name |-> name]

\* A value thrown by a semantic value factory.
Thrown(what) == [k |-> "Thrown", what |-> what]

\* Names of the functions whose value is a number.
NumberFunctionNames ==
    { <<"l", "a", "s", "t">>,
      <<"p", "o", "s", "i", "t", "i", "o", "n">>,
      <<"c", "o", "u", "n", "t">>,
      <<"s", "u", "m">>,
      <<"f", "l", "o", "o", "r">>,
      <<"c", "e", "i", "l", "i", "n", "g">>,
      <<"r", "o", "u", "n", "d">>,
      <<"s", "t", "r", "i", "n", "g", "-", "l", "e", "n", "g", "t", "h">>,
      <<"n", "u", "m", "b", "e", "r">> }

\* Whether the value of the expression is always a number.
exprReturnsNumberValue(expr) ==
    CASE expr.k = "FunctionCallExpr" -> expr.name.value \in NumberFunctionNames
      [] expr.k = "UnaryMinusExpr" -> TRUE
      [] expr.k = "BinaryExpr" ->
            expr.op.value \in {<<"+">>, <<"-">>, <<"*">>, <<"m", "o", "d">>,
                               <<"d", "i", "v">>}
      [] expr.k = "NumberExpr" -> TRUE
      [] OTHER -> FALSE

\* Whether a predicate expression holds a reference to the context
\* position: a number literal, an arithmetic combinator or a call of a
\* number-valued function anywhere in it, the predicates of the steps
\* nested in it left aside.
RECURSIVE predicateExprHasPositionalSelector(_)
predicateExprHasPositionalSelector(expr) ==
    \/ exprReturnsNumberValue(expr)
    \/ CASE expr.k = "FunctionCallExpr" ->
                \E i \in 1..Len(expr.args) : predicateExprHasPositionalSelector(expr.args[i])
         [] expr.k = "BinaryExpr" ->
                \/ predicateExprHasPositionalSelector(expr.expr1)
                \/ predicateExprHasPositionalSelector(expr.expr2)
         [] OTHER -> FALSE

\* StepExpr.appendPredicate
appendPredicate(step, p) ==
    [step EXCEPT !.predicate = Append(@, p),
                 !.hasPositionalPredicate =
                     @ \/ predicateExprHasPositionalSelector(p.expr)]

\* StepExpr.appendPredicate without the positional flag.
appendPredicateOnly(step, p) == [step EXCEPT !.predicate = Append(@, p)]

\* LocationExpr.appendStep
appendStep(loc, step) == [loc EXCEPT !.steps = Append(@, step)]

\* LocationExpr.prependStep
prependStep(loc, step) == [loc EXCEPT !.steps = <<step>> \o @]

\* FunctionCallExpr.appendArg
appendArg(call, arg) == [call EXCEPT !.args = Append(@, arg)]

----------------------------------------------------------------------------
(* Semantic value factories.                                               *)

makeTokenExpr(m) == TokenExpr(m)

passExpr(e) == e

makeAbbrevStep(abbrev) ==
    CASE abbrev = <<"/", "/">> -> StepExpr(xPathAxis.DESCENDANT_OR_SELF, NodeTestAny)
      [] abbrev = <<".">> -> StepExpr(xPathAxis.SELF, NodeTestAny)
      [] abbrev = <<".", ".">> -> StepExpr(xPathAxis.PARENT, NodeTestAny)

makeLocationExpr1(slash, rel) == [rel EXCEPT !.absolute = TRUE]

\* makeLocationExpr2 with the abbreviated step put after the steps of rel.
makeLocationExpr2Appending(dslash, rel) ==
    appendStep([rel EXCEPT !.absolute = TRUE], makeAbbrevStep(dslash.value))

makeLocationExpr2(dslash, rel) ==
    prependStep([rel EXCEPT !.absolute = TRUE], makeAbbrevStep(dslash.value))

makeLocationExpr3 ==
    [appendStep(LocationExpr, makeAbbrevStep(<<".">>)) EXCEPT !.absolute = TRUE]

makeLocationExpr4(dslash) ==
    appendStep([LocationExpr EXCEPT !.absolute = TRUE], makeAbbrevStep(dslash.value))

makeLocationExpr5(step) == appendStep(LocationExpr, step)

makeLocationExpr6(rel, slash, step) == appendStep(rel, step)

makeLocationExpr7(rel, dslash, step) ==
    appendStep(appendStep(rel, makeAbbrevStep(dslash.value)), step)

makeStepExpr1(dot) == makeAbbrevStep(dot.value)

makeStepExpr2(ddot) == makeAbbrevStep(ddot.value)

makeStepExpr3(axisname, ax, nodeTest) == StepExpr(axisname.value, nodeTest)

makeStepExpr4(at, nodeTest) == StepExpr(xPathAxis.ATTRIBUTE, nodeTest)

\* Called by the parser with the node test only, so axis || 'child' is 'child'.
makeStepExpr5(nodeTest) == StepExpr(xPathAxis.CHILD, nodeTest)

\* makeStepExpr6 leaving the flag of the step as it was.
makeStepExpr6KeepingFlag(step, predicate) == appendPredicateOnly(step, predicate)

makeStepExpr6(step, predicate) == appendPredicate(step, predicate)

makeNodeTestExpr1 == NodeTestElementOrAttribute

makeNodeTestExpr2(ncname) == NodeTestNC(ncname.value)

makeNodeTestExpr3(qname) == NodeTestName(qname.value)

\* typeo.value.replace(/\s*\($/, ''): the opener without its parenthesis.
makeNodeTestExpr4(typeo) ==
    LET type == SubSeq(typeo.value, 1, Len(typeo.value) - 1)
    IN  CASE type = NodeTypeNames[4] -> NodeTestAny
          [] type = NodeTypeNames[3] -> NodeTestText
          [] type = NodeTypeNames[2] -> NodeTestComment
          [] type = NodeTypeNames[1] -> NodeTestPI(<<>>)

\* typeo is a TokenExpr object, which has no replace method: the call
\* typeo.replace(...) throws a TypeError before anything else happens.
makeNodeTestExpr5(typeo, target) == Thrown("TypeError")

makePredicateExpr(pareno, expr) == PredicateExpr(expr)

makePrimaryExpr(pareno, expr) == expr

makeFunctionCallExpr1(name) == FunctionCallExpr(name)

RECURSIVE AppendArgs(_, _)
AppendArgs(call, args) ==
    IF args = <<>> THEN call
    ELSE AppendArgs(appendArg(call, Head(args)), Tail(args))

makeFunctionCallExpr2(name, pareno, arg1, args) ==
    AppendArgs(appendArg(FunctionCallExpr(name), arg1), args.items)

makeArgumentExpr(comma, expr) == expr

makeUnionExpr(expr1, pipe, expr2) == UnionExpr(expr1, expr2)

makePathExpr1(filter, slash, rel) == PathExpr(filter, rel)

makePathExpr2(filter, dslash, rel) ==
    PathExpr(filter, prependStep(rel, makeAbbrevStep(dslash.value)))

makeFilterExpr(expr, predicates) ==
    IF Len(predicates.items) > 0 THEN FilterExpr(expr, predicates.items) ELSE expr

makeUnaryMinusExpr(minus, expr) == UnaryMinusExpr(expr)

makeBinaryExpr(expr1, op, expr2) == BinaryExpr(expr1, op, expr2)

\* token.value.substring(1, token.value.length - 1)
makeLiteralExpr(token) ==
    LiteralExpr(SubSeq(token.value, 2, Len(token.value) - 1))

makeNumberExpr(token) == NumberExpr(token.value)

makeVariableReference(dollar, name) == VariableExpr(name.value)

\* rule[3].apply(this, matchExpression)
ApplyFactory(make, a) ==
    CASE make = "passExpr" -> passExpr(a[1])
      [] make = "makeLocationExpr1" -> makeLocationExpr1(a[1], a[2])
      [] make = "makeLocationExpr2" -> makeLocationExpr2(a[1], a[2])
      [] make = "makeLocationExpr3" -> makeLocationExpr3
      [] make = "makeLocationExpr4" -> makeLocationExpr4(a[1])
      [] make = "makeLocationExpr5" -> makeLocationExpr5(a[1])
      [] make = "makeLocationExpr6" -> makeLocationExpr6(a[1], a[2], a[3])
      [] make = "makeLocationExpr7" -> makeLocationExpr7(a[1], a[2], a[3])
      [] make = "makeStepExpr1" -> makeStepExpr1(a[1])
      [] make = "makeStepExpr2" -> makeStepExpr2(a[1])
      [] make = "makeStepExpr3" -> makeStepExpr3(a[1], a[2], a[3])
      [] make = "makeStepExpr4" -> makeStepExpr4(a[1], a[2])
      [] make = "makeStepExpr5" -> makeStepExpr5(a[1])
      [] make = "makeStepExpr6" -> makeStepExpr6(a[1], a[2])
      [] make = "makeNodeTestExpr1" -> makeNodeTestExpr1
      [] make = "makeNodeTestExpr2" -> makeNodeTestExpr2(a[1])
      [] make = "makeNodeTestExpr3" -> makeNodeTestExpr3(a[1])
      [] make = "makeNodeTestExpr4" -> makeNodeTestExpr4(a[1])
      [] make = "makeNodeTestExpr5" -> makeNodeTestExpr5(a[1], a[2])
      [] make = "makePredicateExpr" -> makePredicateExpr(a[1], a[2])
      [] make = "makePrimaryExpr" -> makePrimaryExpr(a[1], a[2])
      [] make = "makeFunctionCallExpr1" -> makeFunctionCallExpr1(a[1])
      [] make = "makeFunctionCallExpr2" ->
            makeFunctionCallExpr2(a[1], a[2], a[3], a[4])
      [] make = "makeArgumentExpr" -> makeArgumentExpr(a[1], a[2])
      [] make = "makeUnionExpr" -> makeUnionExpr(a[1], a[2], a[3])
      [] make = "makePathExpr1" -> makePathExpr1(a[1], a[2], a[3])
      [] make = "makePathExpr2" -> makePathExpr2(a[1], a[2], a[3])
      [] make = "makeFilterExpr" -> makeFilterExpr(a[1], a[2])
      [] make = "makeUnaryMinusExpr" -> makeUnaryMinusExpr(a[1], a[2])
      [] make = "makeBinaryExpr" -> makeBinaryExpr(a[1], a[2], a[3])
      [] make = "makeLiteralExpr" -> makeLiteralExpr(a[1])
      [] make = "makeNumberExpr" -> makeNumberExpr(a[1])
      [] make = "makeVariableReference" -> makeVariableReference(a[1], a[2])

----------------------------------------------------------------------------
(* xPathParseInit: the rules sorted by pattern length, longest first, and  *)
(* binned by the last pattern element.                                     *)

RECURSIVE MaxPatternLen(_)
MaxPatternLen(rules) ==
    IF rules = <<>> THEN 0
    ELSE Max(Len(Head(rules).pattern), MaxPatternLen(Tail(rules)))

HasPatternLen(n, rule) == Len(rule.pattern) = n

\* The rules of the given pattern length and shorter, longest first; rules
\* of equal length keep their order (Array.prototype.sort is stable).
RECURSIVE SortByLength(_, _)
SortByLength(rules, n) ==
    IF n = 0 THEN <<>>
    ELSE SelectSeq(rules, LAMBDA r : HasPatternLen(n, r)) \o SortByLength(rules, n - 1)

\* this.xPathGrammarRules after the sort in xPathParseInit.
SortedGrammarRules == SortByLength(xPathGrammarRules, MaxPatternLen(xPathGrammarRules))

\* BinKeys stopping at the last element of the pattern, whatever its
\* quantifier.
BinKeysLastOnly(pattern, j) ==
    IF j < 1 THEN <<>>
    ELSE IF pattern[j] \in {"Q_1M", "Q_MM", "Q_01"} THEN <<pattern[j - 1]>>
    ELSE <<pattern[j]>>

\* The bins a rule is pushed into: the loop over the pattern from its last
\* element, as a sequence of bin keys (tags).
RECURSIVE BinKeys(_, _)
BinKeys(pattern, j) ==
    IF j < 1 THEN <<>>
    ELSE IF pattern[j] = "Q_1M" THEN <<pattern[j - 1]>>
    ELSE IF pattern[j] \in {"Q_MM", "Q_01"}
         THEN <<pattern[j - 1]>> \o BinKeys(pattern, j - 2)
    ELSE <<pattern[j]>>

\* How often key occurs in keys.
RECURSIVE Occurrences(_, _)
Occurrences(keys, key) ==
    IF keys = <<>> THEN 0
    ELSE (IF Head(keys) = key THEN 1 ELSE 0) + Occurrences(Tail(keys), key)

\* The rule, once for every time it was pushed into the bin of key.
RECURSIVE Repeat(_, _)
Repeat(rule, n) == IF n = 0 THEN <<>> ELSE <<rule>> \o Repeat(rule, n - 1)

\* this.xPathRules[key]: the bin of a tag (empty when the bin is undefined).
RECURSIVE BinFrom(_, _, _)
BinFrom(rules, key, i) ==
    IF i > Len(rules) THEN <<>>
    ELSE Repeat(rules[i],
                Occurrences(BinKeys(rules[i].pattern, Len(rules[i].pattern)), key))
         \o BinFrom(rules, key, i + 1)

\* this.xPathRules of a new instance: the empty array, indexed by tag
\* instead of tag.key.
NoRules == [key \in TokenTags \cup NonTerminalTags |-> <<>>]

\* xPathParseInit on an instance whose bins are rules: nothing when
\* this.xPathRules has a length, the rules pushed into their bins when not.
xPathParseInit(rules) ==
    IF \E key \in DOMAIN rules : rules[key] /= <<>>
    THEN rules
    ELSE [key \in DOMAIN rules |-> rules[key] \o BinFrom(SortedGrammarRules, key, 1)]

\* this.xPathRules after the first xPathParseInit.
xPathRulesTable == xPathParseInit(NoRules)

xPathRules(key) == xPathRulesTable[key]

----------------------------------------------------------------------------
(* Stack frames: the tag, the precedence and the expression.  The frame    *)
(* of a token carries TokenExpr(match) as its expression.                  *)

Frame(tag, prec, expr) == [tag |-> tag, prec |-> prec, expr |-> expr]

\* An element of a match: one frame of a plain pattern element, or the
\* frames (in stack order) of a quantified one.
MatchItem(q, frames) == [q |-> q, frames |-> frames]

NoMatch == [ok |-> FALSE, items |-> <<>>, matchlength |-> 0]

\* Number of consecutive frames with the given tag from index s downwards,
\* at most limit.
RECURSIVE TagRun(_, _, _, _)
TagRun(stk, s, tag, limit) ==
    IF s >= 1 /\ limit > 0 /\ stk[s].tag = tag
    THEN 1 + TagRun(stk, s - 1, tag, limit - 1)
    ELSE 0

\* The loop of xPathMatchStack with p and s counted from 1; items collects
\* the match from the right.
RECURSIVE MatchLoop(_, _, _, _, _, _)
MatchLoop(stk, pattern, p, s, items, ml) ==
    IF p >= 1 /\ s >= 1
    THEN IF pattern[p] = "Q_MM"
         THEN LET ds == TagRun(stk, s, pattern[p - 1], Len(stk))
              IN  MatchLoop(stk, pattern, p - 2, s - ds,
                            Append(items, MatchItem(TRUE, SubSeq(stk, s - ds + 1, s))),
                            ml + ds)
         ELSE IF pattern[p] = "Q_01"
         THEN LET ds == TagRun(stk, s, pattern[p - 1], 2)
              IN  MatchLoop(stk, pattern, p - 2, s - ds,
                            Append(items, MatchItem(TRUE, SubSeq(stk, s - ds + 1, s))),
                            ml + ds)
         ELSE IF pattern[p] = "Q_1M"
         THEN IF stk[s].tag = pattern[p - 1]
              THEN LET ds == TagRun(stk, s, pattern[p - 1], Len(stk))
                   IN  MatchLoop(stk, pattern, p - 2, s - ds,
                                 Append(items, MatchItem(TRUE, SubSeq(stk, s - ds + 1, s))),
                                 ml + ds)
              ELSE NoMatch
         ELSE IF stk[s].tag = pattern[p]
         THEN MatchLoop(stk, pattern, p - 1, s - 1,
                        Append(items, MatchItem(FALSE, <<stk[s]>>)), ml + 1)
         ELSE NoMatch
    ELSE IF p = 0
         THEN [ok |-> TRUE, items |-> Reverse(items), matchlength |-> ml]
         ELSE NoMatch

xPathMatchStack(stk, pattern) ==
    MatchLoop(stk, pattern, Len(pattern), Len(stk), <<>>, 0)

\* mapExpr(match, m => m.expr): the expression of a plain element, the list
\* of the expressions of a quantified one.
ExprList(frames) == [k |-> "List", items |-> [i \in 1..Len(frames) |-> frames[i].expr]]

MatchExpression(items) ==
    [i \in 1..Len(items) |->
        IF items[i].q THEN ExprList(items[i].frames) ELSE items[i].frames[1].expr]

\* tag.prec || 0
xPathTokenPrecedenceOrZero(tag) == TagPrec(tag)

\* tag.prec || 2
xPathTokenPrecedence(tag) == IF TagPrec(tag) /= 0 THEN TagPrec(tag) ELSE 2

RECURSIVE MaxTokenPrecedence(_, _)
MaxTokenPrecedence(pattern, ret) ==
    IF pattern = <<>> THEN ret
    ELSE MaxTokenPrecedence(Tail(pattern), Max(ret, xPathTokenPrecedence(Head(pattern))))

\* xPathGrammarPrecedence for the frame of a rule ("normal reduce").
xPathGrammarPrecedence(rule) ==
    IF rule.prec >= 0 THEN rule.prec ELSE MaxTokenPrecedence(rule.pattern, 0)

NoCandidate == [tag |-> "null"]

\* findGrammarRuleCandidate: the first rule of the set whose pattern matches.
RECURSIVE findGrammarRuleCandidate(_, _, _)
findGrammarRuleCandidate(ruleset, stk, i) ==
    IF i > Len(ruleset) THEN NoCandidate
    ELSE LET m == xPathMatchStack(stk, ruleset[i].pattern)
         IN  IF m.ok /\ Len(m.items) > 0
             THEN [tag |-> ruleset[i].target, rule |-> ruleset[i], match |-> m,
                   prec |-> xPathGrammarPrecedence(ruleset[i])]
             ELSE findGrammarRuleCandidate(ruleset, stk, i + 1)

\* Candidate with the bin examined from its end: the shortest matching
\* pattern wins.
CandidateShortestFirst(stk) ==
    IF Len(stk) > 0
    THEN findGrammarRuleCandidate(Reverse(xPathRules(stk[Len(stk)].tag)), stk, 1)
    ELSE NoCandidate

\* The first lines of xPathReduce: the candidate for the stack.
Candidate(stk) ==
    IF Len(stk) > 0
    THEN findGrammarRuleCandidate(xPathRules(stk[Len(stk)].tag), stk, 1)
    ELSE NoCandidate

\* ReduceCondition with the associativity of the lookahead ignored: equal
\* precedence always reduces.
ReduceConditionIgnoringAssoc(candidate, ah) ==
    /\ candidate.tag /= "null"
    /\ \/ ah.tag = "null"
       \/ candidate.prec >= ah.prec

\* The condition of xPathReduce under which the candidate is reduced.
ReduceCondition(candidate, ah) ==
    /\ candidate.tag /= "null"
    /\ \/ ah.tag = "null"
       \/ candidate.prec > ah.prec
       \/ TagLeft(ah.tag) /\ candidate.prec >= ah.prec

\* ReduceStack popping one frame per pattern element (match.length) instead
\* of one per matched frame (match.matchlength).
ReduceStackPopPatternLength(stk, candidate) ==
    LET e == ApplyFactory(candidate.rule.make, MatchExpression(candidate.match.items))
        popped == SubSeq(stk, 1, Len(stk) - Len(candidate.match.items))
    IN  IF e.k = "Thrown"
        THEN [stack |-> popped, ret |-> FALSE, threw |-> TRUE, thrown |-> e]
        ELSE [stack |-> Append(popped, Frame(candidate.tag, candidate.prec, e)),
              ret |-> TRUE, threw |-> FALSE, thrown |-> e]

\* The reduce branch of xPathReduce: pop the matched frames, apply the
\* factory, push the candidate.  threw is set when the factory throws.
ReduceStack(stk, candidate) ==
    LET e == ApplyFactory(candidate.rule.make, MatchExpression(candidate.match.items))
        popped == SubSeq(stk, 1, Len(stk) - candidate.match.matchlength)
    IN  IF e.k = "Thrown"
        THEN [stack |-> popped, ret |-> FALSE, threw |-> TRUE, thrown |-> e]
        ELSE [stack |-> Append(popped, Frame(candidate.tag, candidate.prec, e)),
              ret |-> TRUE, threw |-> FALSE, thrown |-> e]

\* The shift branch of xPathReduce.
ShiftStack(stk, ah) ==
    [stack |-> IF ah.tag /= "null" THEN Append(stk, ah) ELSE stk,
     ret |-> FALSE, threw |-> FALSE, thrown |-> Null]

\* xPathReduce(stack, ahead): the stack it leaves and the value it returns.
xPathReduce(stk, ah) ==
    LET candidate == Candidate(stk)
    IN  IF ReduceCondition(candidate, ah)
        THEN ReduceStack(stk, candidate)
        ELSE ShiftStack(stk, ah)

\* stackToString: the labels of the frames, bottom first.
stackToString(stk) == [i \in 1..Len(stk) |-> Label(stk[i].tag)]

----------------------------------------------------------------------------
(* xPathParse: fast paths, token loop, end of parse.                       *)

AllIn(s, class) == \A i \in 1..Len(s) : s[i] \in class

\* expression.match(/^(\$|@)?\w+$/i)
IsSimpleExpr(s) ==
    \/ s /= <<>> /\ AllIn(s, WordChar)
    \/ Len(s) >= 2 /\ s[1] \in {"$", "@"} /\ AllIn(Tail(s), WordChar)

\* expression.match(/^\w+(\/\w+)*$/i)
RECURSIVE IsSimpleExpr2(_)
IsSimpleExpr2(s) ==
    LET n == RunLen(s, WordChar)
    IN  /\ n > 0
        /\ \/ n = Len(s)
           \/ s[n + 1] = "/" /\ IsSimpleExpr2(Substr(s, n + 1))

makeSimpleExpr(s, ax) ==
    IF s[1] = "$" THEN VariableExpr(Substr(s, 1))
    ELSE IF s[1] = "@"
         THEN appendStep(LocationExpr,
                         StepExpr(xPathAxis.ATTRIBUTE, NodeTestName(Substr(s, 1))))
    ELSE IF AllIn(s, Digit) THEN NumberExpr(s)
    ELSE appendStep(LocationExpr,
                    StepExpr(IF ax /= Undefined THEN ax ELSE xPathAxis.CHILD,
                             NodeTestName(s)))

\* expr.split('/')
RECURSIVE Split(_)
Split(s) ==
    LET n == RunLenNot(s, "/")
    IN  IF n = Len(s) THEN <<s>> ELSE <<SubSeq(s, 1, n)>> \o Split(Substr(s, n + 1))

RECURSIVE AppendNameSteps(_, _)
AppendNameSteps(loc, names) ==
    IF names = <<>> THEN loc
    ELSE AppendNameSteps(
             appendStep(loc, StepExpr(xPathAxis.CHILD, NodeTestName(Head(names)))),
             Tail(names))

\* makeSimpleExpr2 with the steps collected in reverse.
makeSimpleExpr2Reversed(s) == AppendNameSteps(LocationExpr, Reverse(Split(s)))

makeSimpleExpr2(s) == AppendNameSteps(LocationExpr, Split(s))

\* this.xPathParseCache[key] = value
CachePut(cache, key, value) ==
    [x \in DOMAIN cache \cup {key} |-> IF x = key THEN value ELSE cache[x]]

EmptyCache == [x \in {} |-> Null]

\* The cache after the first fast path has built ret.
CacheAfterSimple(cache, key, ret, ax) == CachePut(cache, key, ret)

\* The cache after the second fast path has built ret.
CacheAfterSimple2(cache, key, ret, ax) == CachePut(cache, key, ret)

\* The thrown parse error: the fixed prefix, the text, the frame labels.
ParseError(key, stk) ==
    [k |-> "ParseError", prefix |-> "XPath parse error ", expression |-> key,
     stack |-> stackToString(stk)]

\* StackAccepted accepting any non-empty stack.
StackAcceptedNonEmpty(stk) == Len(stk) >= 1

\* The test after the token loop: whether the stack is accepted.
StackAccepted(stk) == Len(stk) = 1

\* The axis override applied to the result of the general parser.
AxisOverride(res, ax, originalExpression) ==
    IF /\ ax /= Undefined
       /\ res.k = "LocationExpr"
       /\ ~res.absolute
       /\ ~IsPrefix(<<"*">>, originalExpression)
    THEN [res EXCEPT !.steps[1].axis = ax]
    ELSE res

\* The cache after the general parser has built its result.
CacheAfterParse(cache, key, res, ax) == CachePut(cache, key, res)

\* CacheAfterThrow with the cache written before the stack is tested.
CacheWrittenBeforeCheck(cache, key, stk) ==
    CachePut(cache, key, IF Len(stk) > 0 THEN stk[1].expr ELSE Null)

\* The cache when the general parser throws.
CacheAfterThrow(cache, key, stk) == cache

\* The frame of a lexed token: prec is rule.prec ? rule.prec : 0.
TokenFrame(tag, match) == Frame(tag, TagPrec(tag), makeTokenExpr(match))

\* Entry of xPathParse(text, ax): the fast paths return at once, any other
\* text starts the general parser.
\* CacheHit with the lookup in force: a call with no axis argument is
\* answered from the cache when the text has an entry.
CacheHitWithoutAxis(cache, key, ax) == ax = Undefined /\ key \in DOMAIN cache

\* The cache lookup at the head of xPathParse is commented out: no call is
\* answered from the cache.
CacheHit(cache, key, ax) == FALSE

\* The results remembered for the texts parsed with no axis argument.
Remember(hist, key, ax, res) ==
    IF ax = Undefined /\ key \notin DOMAIN hist
    THEN [x \in DOMAIN hist \cup {key} |-> IF x = key THEN res ELSE hist[x]]
    ELSE hist

xPathParseCall(text, ax) ==
    /\ pc \in {"idle", "returned", "thrown"}
    /\ calls' = calls + 1
    /\ cacheAtCall' = xPathParseCache
    /\ cachekey' = text
    /\ axis' = ax
    /\ stack' = <<>>
    /\ ahead' = Null
    /\ previous' = Null
    /\ done' = FALSE
    /\ error' = Null
    /\ parseCount' = 0
    /\ reduceCount' = 0
    /\ IF CacheHit(xPathParseCache, text, ax)
       THEN /\ xPathParseCache' = xPathParseCache
            /\ result' = xPathParseCache[text]
            /\ parsed' = Remember(parsed, text, ax, xPathParseCache[text])
            /\ expression' = text
            /\ pc' = "returned"
       ELSE IF IsSimpleExpr(text)
       THEN LET ret == makeSimpleExpr(text, ax)
            IN  /\ xPathParseCache' = CacheAfterSimple(xPathParseCache, text, ret, ax)
                /\ result' = ret
                /\ parsed' = Remember(parsed, text, ax, ret)
                /\ expression' = text
                /\ pc' = "returned"
       ELSE IF IsSimpleExpr2(text)
       THEN LET ret == makeSimpleExpr2(text)
            IN  /\ xPathParseCache' = CacheAfterSimple2(xPathParseCache, text, ret, ax)
                /\ result' = ret
                /\ parsed' = Remember(parsed, text, ax, ret)
                /\ expression' = text
                /\ pc' = "returned"
       ELSE /\ xPathParseCache' = xPathParseCache
            /\ result' = Null
            /\ parsed' = parsed
            /\ expression' = text
            /\ pc' = "lex"
    /\ UNCHANGED <<stepVars, utilVars, xmlVars>>

\* Head of the token loop: skip white space, lex one token into ahead, or
\* end the loop when no rule matches.
LexToken ==
    /\ pc = "lex"
    /\ LET rest == SkipSpace(expression)
           found == findXPathRuleForExpression(rest, ahead)
       IN  /\ previous' = ahead
           /\ IF found.rule /= "null"
              THEN /\ expression' = Substr(rest, Len(found.match))
                   /\ ahead' = TokenFrame(found.rule, found.match)
                   /\ done' = done
              ELSE /\ expression' = rest
                   /\ ahead' = Null
                   /\ done' = TRUE
    /\ pc' = "reduce"
    /\ parseCount' = parseCount + 1
    /\ UNCHANGED <<cachekey, axis, stack, result, error, xPathParseCache,
                   cacheAtCall, calls, reduceCount, parsed>>
    /\ UNCHANGED <<stepVars, utilVars, xmlVars>>

\* One call of xPathReduce in the loop while (xPathReduce(stack, ahead)).
ReduceOrShift ==
    /\ pc = "reduce"
    /\ LET r == xPathReduce(stack, ahead)
       IN  /\ stack' = r.stack
           /\ IF r.threw
              THEN /\ pc' = "thrown"
                   /\ error' = r.thrown
                   /\ xPathParseCache' = CacheAfterThrow(xPathParseCache, cachekey, r.stack)
              ELSE /\ pc' = IF r.ret THEN "reduce" ELSE IF done THEN "finish" ELSE "lex"
                   /\ error' = error
                   /\ xPathParseCache' = xPathParseCache
           /\ reduceCount' = IF r.ret THEN reduceCount + 1 ELSE reduceCount
    /\ UNCHANGED <<expression, cachekey, axis, ahead, previous, done, result,
                   cacheAtCall, calls, parseCount, parsed>>
    /\ UNCHANGED <<stepVars, utilVars, xmlVars>>

\* After the token loop: the stack test, the axis override, the cache
\* write and the return.
FinishParse ==
    /\ pc = "finish"
    /\ IF ~StackAccepted(stack)
       THEN /\ pc' = "thrown"
            /\ error' = ParseError(cachekey, stack)
            /\ result' = result
            /\ parsed' = parsed
            /\ xPathParseCache' = CacheAfterThrow(xPathParseCache, cachekey, stack)
       ELSE LET res == AxisOverride(stack[1].expr, axis, cachekey)
            IN  /\ pc' = "returned"
                /\ error' = error
                /\ result' = res
                /\ parsed' = Remember(parsed, cachekey, axis, res)
                /\ xPathParseCache' = CacheAfterParse(xPathParseCache, cachekey, res, axis)
    /\ UNCHANGED <<expression, cachekey, axis, stack, ahead, previous, done,
                   cacheAtCall, calls, parseCount, reduceCount>>
    /\ UNCHANGED <<stepVars, utilVars, xmlVars>>

----------------------------------------------------------------------------
(* Input texts of the parser.                                              *)

\* Number of lexemes in the enumerated texts.
MaxLexemes == 3

Lexemes ==
    {<<"a">>, <<"1">>, <<"/">>, <<"[">>, <<"]">>, <<"(">>, <<")">>, <<",">>,
     <<"+">>, <<"#">>, <<" ">>}

\* All concatenations of at most n lexemes.
RECURSIVE LexemeTexts(_)
LexemeTexts(n) ==
    IF n = 0 THEN {<<>>}
    ELSE LET shorter == LexemeTexts(n - 1)
         IN  shorter \cup {t \o l : t \in shorter, l \in Lexemes}

\* Longer expressions.
CorpusTexts ==
    { <<"1", "+", "1", "+", "1">>,
      <<"1", "=", "1", "=", "1">>,
      <<"1", "+", "1", "*", "1">>,
      <<"1", "*", "1", "+", "1">>,
      <<"f", "(", "1", ",", "1", ")">>,
      <<"f", "(", "1", ",", "1", ",", "1", ")">>,
      <<"(", "a", ")", "[", "1", "]", "[", "1", "]">>,
      <<"a", "[", "1", "]", "#">>,
      <<"a", "/", "b", "[", "1", "]">>,
      <<"/", "/", "a", "[", "@", "b", "=", "'", "c", "'", "]">>,
      <<"-", "1", "+", "1">>,
      <<"a", "|", "b">>,
      <<"$", "a", "/", "b">>,
      <<"a", " ", "o", "r", " ", "b">>,
      <<"c", "h", "i", "l", "d", ":", ":", "a">>,
      <<"t", "e", "x", "t", "(", ")">>,
      <<"p", "r", "o", "c", "e", "s", "s", "i", "n", "g", "-", "i", "n", "s", "t", "r", "u", "c", "t", "i", "o", "n", "(", "'", "a", "'", ")">>,
      <<"a", "[", "1", "]", "/", "b">>,
      <<"/", "/", "a">>,
      <<"a", " ", "a", "n", "d", " ", "b", " ", "d", "i", "v", " ", "c">>,
      <<"d", "i", "v", "[", "1", "]">>,
      <<"@", "m", "o", "d", "=", "1">>,
      <<"/", "/", "a", "n", "d">>,
      <<"a", "/", "o", "r", "[", "1", "]">>,
      <<"c", "h", "i", "l", "d", ":", ":", "d", "i", "v">>,
      <<"$", "d", "i", "v", "+", "1">>,
      <<"1", " ", "m", "o", "d", " ", "1">>,
      <<"o", "r", "-", "b", "[", "1", "]">>,
      <<"a", "/", "/", "b">>,
      <<"/", "a", "/", "/", "b", "/", "c">>,
      <<"n", "o", "d", "e", "(", ")">>,
      <<"c", "o", "m", "m", "e", "n", "t", "(", ")">>,
      <<"p", "r", "o", "c", "e", "s", "s", "i", "n", "g", "-", "i", "n", "s", "t", "r", "u", "c", "t", "i", "o", "n", "(", ")">>,
      <<"t", "e", "x", "t", "(", "'", "a", "'", ")">>,
      <<"a", "/", "p", "r", "o", "c", "e", "s", "s", "i", "n", "g", "-", "i", "n", "s", "t", "r", "u", "c", "t", "i", "o", "n", "(", "'", "b", "'", ")">> }

\* The binary operators as they are written, with the tag of their token.
BinaryOperators ==
    { [text |-> <<"o", "r">>, tag |-> "TOK_OR"],
      [text |-> <<"a", "n", "d">>, tag |-> "TOK_AND"],
      [text |-> <<"=">>, tag |-> "TOK_EQ"],
      [text |-> <<"!", "=">>, tag |-> "TOK_NEQ"],
      [text |-> <<"<">>, tag |-> "TOK_LT"],
      [text |-> <<"<", "=">>, tag |-> "TOK_LE"],
      [text |-> <<">">>, tag |-> "TOK_GT"],
      [text |-> <<">", "=">>, tag |-> "TOK_GE"],
      [text |-> <<"+">>, tag |-> "TOK_PLUS"],
      [text |-> <<"-">>, tag |-> "TOK_MINUS"],
      [text |-> <<"*">>, tag |-> "TOK_ASTERISK"],
      [text |-> <<"d", "i", "v">>, tag |-> "TOK_DIV"],
      [text |-> <<"m", "o", "d">>, tag |-> "TOK_MOD"] }

\* The operands of a chain: numbers, or names.
ChainOperands == {<<"1", "2", "3">>, <<"a", "b", "c">>}

\* The chain a op1 b op2 c.
ChainText(op1, op2, o) ==
    <<o[1], " ">> \o op1.text \o <<" ", o[2], " ">> \o op2.text \o <<" ", o[3]>>

ChainTexts ==
    {ChainText(op1, op2, o) : op1 \in BinaryOperators, op2 \in BinaryOperators, o \in ChainOperands}

ParseTexts == LexemeTexts(MaxLexemes) \cup CorpusTexts \cup ChainTexts

----------------------------------------------------------------------------
(* The parser on one text.                                                 *)

ParseInit ==
    /\ pc = "idle"
    /\ expression = <<>>
    /\ cachekey = <<>>
    /\ axis = Undefined
    /\ stack = <<>>
    /\ ahead = Null
    /\ previous = Null
    /\ done = FALSE
    /\ result = Null
    /\ error = Null
    /\ xPathParseCache = EmptyCache
    /\ cacheAtCall = EmptyCache
    /\ calls = 0
    /\ parseCount = 0
    /\ reduceCount = 0
    /\ parsed = EmptyCache

StepIdle ==
    /\ doc = <<>>
    /\ input = 0
    /\ scope = 0
    /\ steps = <<>>
    /\ nodesFull = <<>>
    /\ nodesFirst = <<>>
    /\ evalpc = "idle"

UtilIdle ==
    /\ sortList = <<>>
    /\ sortedNodes = <<>>
    /\ sortpc = "idle"
    /\ sort = <<>>
    /\ siblingPosition = <<>>
    /\ position = 0
    /\ matchStack = <<>>
    /\ matchPattern = <<>>
    /\ matchResult = NoMatch
    /\ matchpc = "idle"

\* The root: the XDocument of the call.  Nodes created later are numbered
\* from 1 in the order of their creation.
Root == 0

\* The value of parent when the stack is empty: undefined.
UndefinedNode == 0 - 1

XmlIdle ==
    /\ xml = <<>>
    /\ scanIndex = 0
    /\ scanStart = 0
    /\ inTag = FALSE
    /\ quotes = FALSE
    /\ doublequotes = FALSE
    /\ elementStack = <<>>
    /\ parentNode = Root
    /\ xmlNodes = <<>>
    /\ xmlpc = "idle"

InitParse == ParseInit /\ StepIdle /\ UtilIdle /\ XmlIdle

\* The one call of the parser: any text, no axis argument.
ParseOnce ==
    /\ calls = 0
    /\ \E text \in ParseTexts : xPathParseCall(text, Undefined)

NextParse == ParseOnce \/ LexToken \/ ReduceOrShift \/ FinishParse

SpecParse == InitParse /\ [][NextParse]_vars

----------------------------------------------------------------------------
(* A sequence of parser calls on one parser instance.                      *)

\* Number of xPathParse calls in a run.
MaxCalls == 3

CacheTexts ==
    { <<"a">>,
      <<"a", "/", "b">>,
      <<"a", "[", "1", "]">>,
      <<"1", "+">>,
      <<",">>,
      <<"@", "a">>,
      <<"$", "a">>,
      <<"1">>,
      <<"p", "r", "o", "c", "e", "s", "s", "i", "n", "g", "-", "i", "n", "s", "t", "r", "u", "c", "t", "i", "o", "n", "(", "'", "a", "'", ")">>,
      <<"a", "/", "b", "[", "1", "]">>,
      <<"/", "a">> }

CacheAxes == {Undefined, xPathAxis.SELF}

ParseAgain ==
    /\ calls < MaxCalls
    /\ \E text \in CacheTexts, ax \in CacheAxes : xPathParseCall(text, ax)

NextCache == ParseAgain \/ LexToken \/ ReduceOrShift \/ FinishParse

SpecCache == InitParse /\ [][NextCache]_vars

----------------------------------------------------------------------------
(* The general parser on the texts the fast paths take.                    *)

\* Longest word of a fast-path text.
MaxWordLen == 2

WordLetters == {"a", "4", "_"}

\* The words of at most n characters.
RECURSIVE Words(_)
Words(n) ==
    IF n = 0 THEN {}
    ELSE Words(n - 1)
         \cup {<<c>> : c \in WordLetters}
         \cup {Append(w, c) : w \in Words(n - 1), c \in WordLetters}

\* Texts that match one of the two regular expressions of the fast paths:
\* word, @word, $word, word/word, and the words that are operator names.
FastTexts ==
    LET words == Words(MaxWordLen) \cup {<<"d", "i", "v">>, <<"o", "r">>}
    IN  words
        \cup {<<"@">> \o w : w \in words}
        \cup {<<"$">> \o w : w \in words}
        \cup {w1 \o <<"/">> \o w2 : w1 \in words, w2 \in words}

\* What xPathParse returns for a text of a fast path, no axis argument.
FastPathValue(text) ==
    IF IsSimpleExpr(text) THEN makeSimpleExpr(text, Undefined) ELSE makeSimpleExpr2(text)

\* The general parser of xPathParse (the token loop and what follows it)
\* started on a text, the fast paths left out.
GeneralParserCall(text) ==
    /\ pc \in {"idle", "returned", "thrown"}
    /\ calls' = calls + 1
    /\ cacheAtCall' = xPathParseCache
    /\ cachekey' = text
    /\ axis' = Undefined
    /\ stack' = <<>>
    /\ ahead' = Null
    /\ previous' = Null
    /\ done' = FALSE
    /\ error' = Null
    /\ parseCount' = 0
    /\ reduceCount' = 0
    /\ xPathParseCache' = xPathParseCache
    /\ result' = Null
    /\ parsed' = parsed
    /\ expression' = text
    /\ pc' = "lex"
    /\ UNCHANGED <<stepVars, utilVars, xmlVars>>

ParseGeneral ==
    /\ calls = 0
    /\ \E text \in FastTexts : GeneralParserCall(text)

NextFast == ParseGeneral \/ LexToken \/ ReduceOrShift \/ FinishParse

SpecFast == InitParse /\ [][NextFast]_vars

----------------------------------------------------------------------------
(* Documents.  A document is the sequence of the parents of its element    *)
(* nodes, the nodes being numbered 1..N in document order; the parent of   *)
(* node 1, the document element, is written 0.  The document node above    *)
(* node 1 is left out: no node test used below accepts it.                 *)

\* Largest number of element nodes of a document.
MaxNodes == 4

RECURSIVE IsAncestor(_, _, _)
IsAncestor(d, a, x) == x > 1 /\ (d[x] = a \/ IsAncestor(d, a, d[x]))

\* Parent sequences that number the nodes in document order.
IsDocument(d) ==
    /\ d[1] = 0
    /\ \A i \in 2..Len(d) : d[i] = i - 1 \/ IsAncestor(d, d[i], i - 1)

Documents ==
    UNION { { d \in [1..n -> 0..(n - 1)] : IsDocument(d) } : n \in 1..MaxNodes }

\* Element names: nodes are named a and b in turn.
NodeName(x) == IF x % 2 = 0 THEN <<"b">> ELSE <<"a">>

RECURSIVE Ascending(_)
Ascending(S) ==
    IF S = {} THEN <<>>
    ELSE LET m == CHOOSE x \in S : \A y \in S : x <= y
         IN  <<m>> \o Ascending(S \ {m})

Descending(S) == Reverse(Ascending(S))

\* The nodes of an axis from node x, in the direction of the axis.
AxisNodes(d, ax, x) ==
    LET N == 1..Len(d)
        desc == {i \in N : IsAncestor(d, x, i)}
        anc == {i \in N : IsAncestor(d, i, x)}
        sibl == {i \in N : i /= 1 /\ x /= 1 /\ d[i] = d[x]}
    IN  CASE ax = xPathAxis.SELF -> <<x>>
          [] ax = xPathAxis.CHILD -> Ascending({i \in N : d[i] = x})
          [] ax = xPathAxis.PARENT -> IF d[x] /= 0 THEN <<d[x]>> ELSE <<>>
          [] ax = xPathAxis.DESCENDANT -> Ascending(desc)
          [] ax = xPathAxis.DESCENDANT_OR_SELF -> Ascending(desc \cup {x})
          [] ax = xPathAxis.ANCESTOR -> Descending(anc)
          [] ax = xPathAxis.ANCESTOR_OR_SELF -> Descending(anc \cup {x})
          [] ax = xPathAxis.FOLLOWING_SIBLING -> Ascending({i \in sibl : i > x})
          [] ax = xPathAxis.PRECEDING_SIBLING -> Descending({i \in sibl : i < x})
          [] ax = xPathAxis.FOLLOWING -> Ascending({i \in N : i > x} \ desc)
          [] ax = xPathAxis.PRECEDING -> Descending({i \in N : i < x} \ anc)
          [] OTHER -> <<>>

\* NodeTest.evaluate on an element node.
NodeTestEvaluate(nodeTest, x) ==
    CASE nodeTest.k = "NodeTestElementOrAttribute" -> TRUE
      [] nodeTest.k = "NodeTestAny" -> TRUE
      [] nodeTest.k = "NodeTestName" -> NodeName(x) = nodeTest.name
      [] OTHER -> FALSE

\* The elements of list whose index is in keep, in the order of list.
RECURSIVE KeepIndices(_, _, _)
KeepIndices(list, keep, i) ==
    IF i > Len(list) THEN <<>>
    ELSE (IF i \in keep THEN <<list[i]>> ELSE <<>>) \o KeepIndices(list, keep, i + 1)

\* The axis nodes of a step that pass its node test.
StepCandidates(d, s, x) ==
    LET all == AxisNodes(d, s.axis, x)
    IN  KeepIndices(all, {i \in 1..Len(all) : NodeTestEvaluate(s.nodeTest, all[i])}, 1)

RECURSIVE NumberValue(_)
NumberValue(t) ==
    IF t = <<>> THEN 0
    ELSE 10 * NumberValue(SubSeq(t, 1, Len(t) - 1))
         + (CHOOSE v \in 0..9 : ToString(v) = t[Len(t)])

\* PredicateExpr.evaluate(...).booleanValue() for the node at index i of
\* nodeList: a number is compared with the position, a node set is true
\* when it is not empty.
PredicateEvaluate(d, sc, p, nodeList, i) ==
    LET e == p.expr
    IN  CASE e.k = "NumberExpr" -> i = NumberValue(e.value)
          [] e.k = "VariableExpr" -> i = sc
          [] e.k = "FunctionCallExpr" -> i = Len(nodeList)
          [] e.k = "LocationExpr" -> StepCandidates(d, e.steps[1], nodeList[i]) /= <<>>
          [] OTHER -> FALSE

\* The predicates from the j-th on applied in order, the positions being
\* renumbered over the survivors of each.
RECURSIVE ApplyPredicates(_, _, _, _, _)
ApplyPredicates(d, sc, preds, j, nodeList) ==
    IF j > Len(preds) THEN nodeList
    ELSE ApplyPredicates(d, sc, preds, j + 1,
             KeepIndices(nodeList,
                         {i \in 1..Len(nodeList) :
                              PredicateEvaluate(d, sc, preds[j], nodeList, i)}, 1))

\* StepExpr.evaluate(ctx).nodeSetValue() for the one node of ctx: the
\* predicates are left to the caller when ctx.returnOnFirstMatch is set.
StepEvaluate(d, sc, s, x, returnOnFirstMatch) ==
    IF returnOnFirstMatch THEN StepCandidates(d, s, x)
    ELSE ApplyPredicates(d, sc, s.predicate, 1, StepCandidates(d, s, x))

----------------------------------------------------------------------------
(* xPathStep.  The step index is counted from 1; the result is the array   *)
(* nodes after the call.                                                   *)

RECURSIVE xPathStep(_, _, _, _, _, _, _)
RECURSIVE FirstMatchLoop(_, _, _, _, _, _, _, _)
RECURSIVE EveryNodeLoop(_, _, _, _, _, _, _, _)

\* The loop of the optimized branch, from index i of nodeList on.
FirstMatchLoop(d, sc, nodes, stepList, step, nodeList, i, returnOnFirstMatch) ==
    LET s == stepList[step]
    IN  IF i > Len(nodeList) THEN nodes
        ELSE IF \E j \in 1..Len(s.predicate) :
                    ~PredicateEvaluate(d, sc, s.predicate[j], nodeList, i)
             THEN FirstMatchLoop(d, sc, nodes, stepList, step, nodeList, i + 1,
                                 returnOnFirstMatch)
        ELSE LET pushed ==
                     IF step = Len(stepList) THEN Append(nodes, nodeList[i])
                     ELSE xPathStep(d, sc, nodes, stepList, step + 1, nodeList[i],
                                    returnOnFirstMatch)
             IN  IF Len(pushed) > 0 THEN pushed
                 ELSE FirstMatchLoop(d, sc, pushed, stepList, step, nodeList, i + 1,
                                     returnOnFirstMatch)

\* The loop of the other branch, from index i of nodeList on.
EveryNodeLoop(d, sc, nodes, stepList, step, nodeList, i, returnOnFirstMatch) ==
    IF i > Len(nodeList) THEN nodes
    ELSE LET pushed ==
                 IF step = Len(stepList) THEN Append(nodes, nodeList[i])
                 ELSE xPathStep(d, sc, nodes, stepList, step + 1, nodeList[i],
                                returnOnFirstMatch)
         IN  EveryNodeLoop(d, sc, pushed, stepList, step, nodeList, i + 1,
                           returnOnFirstMatch)

xPathStep(d, sc, nodes, stepList, step, in, returnOnFirstMatch) ==
    LET s == stepList[step]
    IN  IF returnOnFirstMatch /\ ~s.hasPositionalPredicate
        THEN FirstMatchLoop(d, sc, nodes, stepList, step,
                            StepEvaluate(d, sc, s, in, TRUE), 1, returnOnFirstMatch)
        ELSE EveryNodeLoop(d, sc, nodes, stepList, step,
                           StepEvaluate(d, sc, s, in, FALSE), 1, returnOnFirstMatch)

----------------------------------------------------------------------------
(* Evaluation of a location path on a document, without and with the       *)
(* first-match optimization.                                               *)

\* Largest number of steps of a path, and of predicates of a step.
MaxSteps == 2
MaxPredicates == 2

StepAxes ==
    {xPathAxis.CHILD, xPathAxis.PARENT, xPathAxis.DESCENDANT,
     xPathAxis.PRECEDING_SIBLING}

\* [1], [last()], [$n] and [self::b]
Predicates ==
    { PredicateExpr(NumberExpr(<<"1">>)),
      PredicateExpr(FunctionCallExpr(TokenExpr(<<"l", "a", "s", "t">>))),
      PredicateExpr(VariableExpr(<<"n">>)),
      PredicateExpr(appendStep(LocationExpr,
                               StepExpr(xPathAxis.SELF, NodeTestName(<<"b">>)))) }

PredicateLists == UNION { [1..n -> Predicates] : n \in 0..MaxPredicates }

RECURSIVE AppendPredicates(_, _, _)
AppendPredicates(s, preds, j) ==
    IF j > Len(preds) THEN s
    ELSE AppendPredicates(appendPredicate(s, preds[j]), preds, j + 1)

\* The steps the parser builds for axis::*[p1]..[pn].
StepChoices ==
    { AppendPredicates(StepExpr(ax, NodeTestElementOrAttribute), preds, 1) :
          ax \in StepAxes, preds \in PredicateLists }

VariableValues == 1..2

\* A document, a context node and a value for $n.
ChooseDocument ==
    /\ evalpc = "idle"
    /\ \E d \in Documents :
          /\ doc' = d
          /\ \E x \in 1..Len(d) : input' = x
    /\ \E v \in VariableValues : scope' = v
    /\ evalpc' = "path"
    /\ UNCHANGED <<steps, nodesFull, nodesFirst>>
    /\ UNCHANGED <<parseVars, utilVars, xmlVars>>

\* One more step of the location path.
AddStep ==
    /\ evalpc = "path"
    /\ Len(steps) < MaxSteps
    /\ \E s \in StepChoices : steps' = Append(steps, s)
    /\ UNCHANGED <<doc, input, scope, nodesFull, nodesFirst, evalpc>>
    /\ UNCHANGED <<parseVars, utilVars, xmlVars>>

\* xPathStep([], steps, 0, input, context), context.returnOnFirstMatch false.
EvaluateFull ==
    /\ evalpc = "path"
    /\ Len(steps) > 0
    /\ nodesFull' = xPathStep(doc, scope, <<>>, steps, 1, input, FALSE)
    /\ evalpc' = "full"
    /\ UNCHANGED <<doc, input, scope, steps, nodesFirst>>
    /\ UNCHANGED <<parseVars, utilVars, xmlVars>>

\* The same call with context.returnOnFirstMatch true.
EvaluateFirst ==
    /\ evalpc = "full"
    /\ nodesFirst' = xPathStep(doc, scope, <<>>, steps, 1, input, TRUE)
    /\ evalpc' = "first"
    /\ UNCHANGED <<doc, input, scope, steps, nodesFull>>
    /\ UNCHANGED <<parseVars, utilVars, xmlVars>>

NextStep == ChooseDocument \/ AddStep \/ EvaluateFull \/ EvaluateFirst

SpecStep == InitParse /\ [][NextStep]_vars

----------------------------------------------------------------------------
(* A path with predicates, parsed and then evaluated by xPathStep.         *)

\* Paths whose steps have predicates of every sort.
FlagTexts ==
    { <<"/", "/", "a">>,
      <<"/", "/", "a", "[", "1", "]">>,
      <<"/", "/", "a", "[", "1", "]", "[", "@", "f", "o", "o", "]">>,
      <<"/", "/", "a", "[", "l", "a", "s", "t", "(", ")", "]">>,
      <<"/", "/", "a", "[", "p", "o", "s", "i", "t", "i", "o", "n", "(", ")", "=", "1", "]">>,
      <<"/", "/", "a", "[", "@", "f", "o", "o", "]">>,
      <<"/", "/", "a", "[", "@", "f", "o", "o", "=", "'", "1", "'", "]">>,
      <<"/", "/", "a", "[", "@", "f", "o", "o", " ", "a", "n", "d", " ", "p", "o", "s", "i", "t", "i", "o", "n", "(", ")", "=", "2", "]">>,
      <<"/", "/", "a", "[", "(", "@", "f", "o", "o", " ", "o", "r", " ", "p", "o", "s", "i", "t", "i", "o", "n", "(", ")", "=", "2", ")", "]">>,
      <<"/", "/", "a", "[", "@", "f", "o", "o", "]", "[", "2", "]">>,
      <<"/", "/", "a", "[", "0", "+", "1", "]">>,
      <<"/", "/", "a", "[", "(", "0", "+", "1", ")", "]">>,
      <<"/", "/", "a", "[", "s", "t", "r", "i", "n", "g", "-", "l", "e", "n", "g", "t", "h", "(", "'", "b", "a", "r", "'", ")", "]">>,
      <<"/", "/", "a", "[", "b", "[", "@", "b", "a", "z", "=", "'", "1", "'", "]", " ", "a", "n", "d", " ", "p", "o", "s", "i", "t", "i", "o", "n", "(", ")", "=", "2", "]">>,
      <<"/", "/", "a", "[", "b", "[", "1", "]", "]">>,
      <<"/", "/", "a", "[", "b", "[", "p", "o", "s", "i", "t", "i", "o", "n", "(", ")", "=", "1", "]", "[", "2", "]", "]">>,
      <<"a", "[", "1", "]">>,
      <<"a", "[", "b", "]">>,
      <<"a", "[", "$", "n", "]">>,
      <<"*", "[", "l", "a", "s", "t", "(", ")", "]">>,
      <<"a", "[", "b", "]", "[", "1", "]">>,
      <<"b", "[", "$", "n", "]", "[", "b", "]">>,
      <<"a", "[", "@", "x", "=", "1", "]">>,
      <<"a", "[", "n", "o", "t", "(", "p", "o", "s", "i", "t", "i", "o", "n", "(", ")", "=", "1", ")", "]">>,
      <<"a", "[", "-", "b", "]">>,
      <<"a", "[", "b", "|", "c", "]">>,
      <<"a", "[", "1">>,
      <<"a", "[", "]">> }

ParsePath ==
    /\ calls = 0
    /\ \E text \in FlagTexts : xPathParseCall(text, Undefined)

\* The predicates PredicateEvaluate covers: a number, a variable, last()
\* and a relative path of one step without predicates.
EvaluablePredicate(p) ==
    \/ p.expr.k \in {"NumberExpr", "VariableExpr"}
    \/ p.expr.k = "FunctionCallExpr" /\ p.expr.name.value = <<"l", "a", "s", "t">>
    \/ /\ p.expr.k = "LocationExpr"
       /\ Len(p.expr.steps) = 1
       /\ p.expr.steps[1].predicate = <<>>

\* The steps of the parsed path become the steps of a call of xPathStep on
\* a document, a context node and a value for $n.
ChooseParsedPath ==
    /\ pc = "returned"
    /\ evalpc = "idle"
    /\ result.k = "LocationExpr"
    /\ \A i \in 1..Len(result.steps) : \A j \in 1..Len(result.steps[i].predicate) :
          EvaluablePredicate(result.steps[i].predicate[j])
    /\ steps' = result.steps
    /\ \E d \in Documents :
          /\ doc' = d
          /\ \E x \in 1..Len(d) : input' = x
    /\ \E v \in VariableValues : scope' = v
    /\ evalpc' = "path"
    /\ UNCHANGED <<nodesFull, nodesFirst>>
    /\ UNCHANGED <<parseVars, utilVars, xmlVars>>

NextFlag ==
    \/ ParsePath
    \/ LexToken
    \/ ReduceOrShift
    \/ FinishParse
    \/ ChooseParsedPath
    \/ EvaluateFull
    \/ EvaluateFirst

SpecFlag == InitParse /\ [][NextFlag]_vars

----------------------------------------------------------------------------
(* xPathSort.  A node of the context is its index in context.nodeList,     *)
(* counted from 1; a key value is a number or NaN.                         *)

\* Largest number of nodes of the context and of sort keys.
MaxSortNodes == 3
MaxSortKeys == 2

\* value.numberValue() and value.stringValue(): two values in order, and
\* the number of a text that is not a number.
KeyValues ==
    { [nan |-> FALSE, v |-> 1], [nan |-> FALSE, v |-> 2], [nan |-> TRUE, v |-> 0] }

SortOrders == {"ascending", "descending"}

\* a > b and a < b: false when either side is NaN.
GreaterThan(a, b) == ~a.nan /\ ~b.nan /\ a.v > b.v

LessThan(a, b) == ~a.nan /\ ~b.nan /\ a.v < b.v

\* The loop of xPathSortByKey from key i on.
RECURSIVE SortByKeyFrom(_, _, _)
SortByKeyFrom(v1, v2, i) ==
    IF i > Len(v1.key) THEN 0
    ELSE LET o == IF v1.key[i].order = "descending" THEN 0 - 1 ELSE 1
         IN  IF GreaterThan(v1.key[i].value, v2.key[i].value) THEN o
             ELSE IF LessThan(v1.key[i].value, v2.key[i].value) THEN 0 - o
             ELSE SortByKeyFrom(v1, v2, i + 1)

xPathSortByKey(v1, v2) == SortByKeyFrom(v1, v2, 1)

\* The item of xPathSort for the node at index i: the declared keys and
\* then the index, ascending.
SortItem(item, i) ==
    [node |-> item.node,
     key |-> Append(item.key, [value |-> [nan |-> FALSE, v |-> i], order |-> "ascending"])]

\* Whether the comparator is a consistent comparator for the items of the
\* list: antisymmetric and transitive.
ConsistentComparator(list) ==
    LET N == 1..Len(list)
    IN  /\ \A i, j \in N :
              xPathSortByKey(list[i], list[j]) = 0 - xPathSortByKey(list[j], list[i])
        /\ \A i, j, m \in N :
              (xPathSortByKey(list[i], list[j]) < 0 /\ xPathSortByKey(list[j], list[m]) < 0)
                  => xPathSortByKey(list[i], list[m]) < 0

Orderings(n) == {p \in [1..n -> 1..n] : \A i, j \in 1..n : i /= j => p[i] /= p[j]}

\* Array.prototype.sort with xPathSortByKey: the items in the order of the
\* comparator when it is consistent, in an order the implementation
\* chooses when it is not.
ArraySort(list) ==
    LET n == Len(list)
        orders == IF ConsistentComparator(list)
                      THEN {p \in Orderings(n) :
                                \A i, j \in 1..n :
                                    i < j => xPathSortByKey(list[p[i]], list[p[j]]) <= 0}
                      ELSE Orderings(n)
    IN  {[i \in 1..n |-> list[p[i]]] : p \in orders}

\* A context of n nodes and the values of the sort keys on each node.
ChooseSort ==
    /\ sortpc = "idle"
    /\ \E n \in 0..MaxSortNodes, m \in 0..MaxSortKeys :
          \E order \in [1..m -> SortOrders], value \in [1..n -> [1..m -> KeyValues]] :
              /\ sortList' = [i \in 1..n |->
                                 [node |-> i,
                                  key |-> [j \in 1..m |->
                                              [value |-> value[i][j], order |-> order[j]]]]]
              /\ sort' = [j \in 1..m |-> [order |-> order[j]]]
              /\ siblingPosition' = [x \in 1..n |-> 0]
    /\ position' = 0
    /\ sortpc' = "keys"
    /\ UNCHANGED <<sortedNodes, matchStack, matchPattern, matchResult, matchpc>>
    /\ UNCHANGED <<parseVars, stepVars, xmlVars>>

\* The loop over the sorted list with every node keeping its
\* siblingPosition.
KeepSiblingPositions(sp, nodes, i) == sp

\* The loop over the sorted list from index i on: node.siblingPosition = i
\* for the node at each index (indices counted from 0 in the code).
RECURSIVE SetSiblingPositions(_, _, _)
SetSiblingPositions(sp, nodes, i) ==
    IF i > Len(nodes) THEN sp
    ELSE SetSiblingPositions([sp EXCEPT ![nodes[i]] = i - 1], nodes, i + 1)

\* context.setNode(position)
setNode(p) == p

\* xPathSort(context, sort): nothing with an empty sort; else the items
\* sorted by their keys become context.nodeList, each node is given its
\* siblingPosition and the context is set to the first node.
xPathSort ==
    /\ sortpc = "keys"
    /\ IF Len(sort) = 0
           THEN /\ sortedNodes' = [i \in 1..Len(sortList) |-> sortList[i].node]
                /\ UNCHANGED <<sortList, siblingPosition, position>>
           ELSE \E sorted \in ArraySort([i \in 1..Len(sortList) |-> SortItem(sortList[i], i)]) :
                   /\ sortList' = sorted
                   /\ sortedNodes' = [i \in 1..Len(sorted) |-> sorted[i].node]
                   /\ siblingPosition' =
                          SetSiblingPositions(siblingPosition,
                                              [i \in 1..Len(sorted) |-> sorted[i].node], 1)
                   /\ position' = setNode(0)
    /\ sortpc' = "sorted"
    /\ UNCHANGED <<sort, matchStack, matchPattern, matchResult, matchpc>>
    /\ UNCHANGED <<parseVars, stepVars, xmlVars>>

NextSort == ChooseSort \/ xPathSort

SpecSort == InitParse /\ [][NextSort]_vars

\* Largest number of entries of context.nodeList when a node may occur
\* more than once.
MaxContextNodes == 3

\* The node lists of n entries, the nodes numbered in the order of their
\* first occurrence.
RECURSIVE NodeLists(_)
NodeLists(n) ==
    IF n = 0 THEN {<<>>}
    ELSE {Append(l, x) : l \in NodeLists(n - 1), x \in 1..n} 

NumberedByFirstOccurrence(l) ==
    \A i \in 1..Len(l) : l[i] = 1 \/ \E j \in 1..(i - 1) : l[j] = l[i] - 1

\* A context whose node list may hold a node more than once, its position,
\* the siblingPosition of its nodes, and no sort key or one.
ChooseContext ==
    /\ sortpc = "idle"
    /\ \E n \in 0..MaxContextNodes, m \in 0..1 :
          \E nodes \in {l \in NodeLists(n) : NumberedByFirstOccurrence(l)} :
              \E order \in [1..m -> SortOrders],
                 value \in [1..n -> [1..m -> KeyValues]],
                 sp \in [1..n -> {0, MaxContextNodes}],
                 p \in 0..(IF n = 0 THEN 0 ELSE n - 1) :
                  /\ sortList' = [i \in 1..n |->
                                     [node |-> nodes[i],
                                      key |-> [j \in 1..m |->
                                                  [value |-> value[nodes[i]][j],
                                                   order |-> order[j]]]]]
                  /\ sort' = [j \in 1..m |-> [order |-> order[j]]]
                  /\ siblingPosition' = sp
                  /\ position' = p
    /\ sortpc' = "keys"
    /\ UNCHANGED <<sortedNodes, matchStack, matchPattern, matchResult, matchpc>>
    /\ UNCHANGED <<parseVars, stepVars, xmlVars>>

NextContext == ChooseContext \/ xPathSort

SpecContext == InitParse /\ [][NextContext]_vars

----------------------------------------------------------------------------
(* xPathMatchStack on any stack and any pattern.                           *)

\* Largest stack and largest number of elements of a pattern.
MaxMatchStack == 3
MaxPatternElements == 2

MatchTags == {"XPathPrimaryExpr", "XPathPredicate"}

\* A pattern element: a tag alone, or a tag followed by its quantifier.
PatternElements ==
    {<<tag>> : tag \in MatchTags} \cup {<<tag, q>> : tag \in MatchTags, q \in Quantifiers}

RECURSIVE Patterns(_)
Patterns(n) ==
    IF n = 0 THEN {<<>>}
    ELSE LET shorter == Patterns(n - 1)
         IN  shorter \cup {pattern \o e : pattern \in shorter, e \in PatternElements}

Stacks == UNION {[1..n -> {Frame(tag, 0, Null) : tag \in MatchTags}] : n \in 0..MaxMatchStack}

\* A stack and a pattern of at least one element.
ChooseMatch ==
    /\ matchpc = "idle"
    /\ \E stk \in Stacks, pattern \in Patterns(MaxPatternElements) \ {<<>>} :
          /\ matchStack' = stk
          /\ matchPattern' = pattern
    /\ matchpc' = "chosen"
    /\ UNCHANGED <<matchResult, sortList, sortedNodes, sortpc, sort, siblingPosition, position>>
    /\ UNCHANGED <<parseVars, stepVars, xmlVars>>

\* xPathMatchStack(stack, pattern)
MatchStack ==
    /\ matchpc = "chosen"
    /\ matchResult' = xPathMatchStack(matchStack, matchPattern)
    /\ matchpc' = "matched"
    /\ UNCHANGED <<matchStack, matchPattern, sortList, sortedNodes, sortpc, sort,
                   siblingPosition, position>>
    /\ UNCHANGED <<parseVars, stepVars, xmlVars>>

NextMatch == ChooseMatch \/ MatchStack

SpecMatch == InitParse /\ [][NextMatch]_vars

----------------------------------------------------------------------------
(* xmlParse (dom/functions.ts).  The text is a sequence of characters;     *)
(* indices count from 0 as in the code.  Attributes and namespaces of the  *)
(* elements are left out.  No text below starts with an XML declaration,   *)
(* so the names are those of XML 1.0.                                      *)

\* s.slice(a, b) with 0-based bounds, the end not included.
Slice(s, a, b) == SubSeq(s, Min(a, Len(s)) + 1, Min(b, Len(s)))

\* s.slice(a)
SliceFrom(s, a) == SubSeq(s, Min(a, Len(s)) + 1, Len(s))

\* s.indexOf(p): the first 0-based index at which p occurs in s, or -1.
IndexOf(s, p) ==
    LET hits == {k \in 0..(Len(s) - Len(p)) : SubSeq(s, k + 1, k + Len(p)) = p}
    IN  IF hits = {} THEN 0 - 1 ELSE CHOOSE k \in hits : \A h \in hits : k <= h

\* s.trimStart()
RECURSIVE trimStart(_)
trimStart(s) == IF s /= <<>> /\ Head(s) \in SpaceChar THEN trimStart(Tail(s)) ELSE s

\* text.match(/\/$/)
regexEmpty(text) == text /= <<>> /\ text[Len(text)] = "/"

XmlNameStartChar == Letter \cup {":", "_"}

XmlNameChar == Letter \cup Digit \cup {":", "_", "-", "."}

\* Length of the match of regexTagname at the start of the text (0: exec
\* returns null).
TagNameLen(text) ==
    IF text /= <<>> /\ Head(text) \in XmlNameStartChar
    THEN 1 + RunLen(Tail(text), XmlNameChar)
    ELSE 0

\* The nodes xmlParse creates.
XmlElement(name, up) == [kind |-> "element", value |-> name, parent |-> up]

XmlText(text, up) == [kind |-> "text", value |-> text, parent |-> up]

XmlComment(text, up) == [kind |-> "comment", value |-> text, parent |-> up]

XmlCDATASection(data, up) == [kind |-> "cdata", value |-> data, parent |-> up]

XmlDTDSection(data, up) == [kind |-> "dtd", value |-> data, parent |-> up]

XSLTEXT == <<"x", "s", "l", ":", "t", "e", "x", "t">>

CDATAOPEN == <<"!", "[", "C", "D", "A", "T", "A", "[">>

DOCTYPEOPEN == <<"!", "D", "O", "C", "T", "Y", "P", "E">>

\* The opener of the text node made of a DOCTYPE declaration in xsl:text.
DOCTYPETEXT == <<"<", "!", "D", "O", "C", "T", "Y", "P", "E", " ">>

\* parent.nodeName === 'xsl:text'
IsXslText(nodes, up) ==
    /\ up /= Root
    /\ nodes[up].kind = "element"
    /\ nodes[up].value = XSLTEXT

\* stack.pop(): the stack without its last entry, the empty stack staying
\* empty.
Pop(stk) == IF stk = <<>> THEN <<>> ELSE SubSeq(stk, 1, Len(stk) - 1)

\* stack[stack.length - 1]
Top(stk) == IF stk = <<>> THEN UndefinedNode ELSE stk[Len(stk)]

\* The first branch of the loop: the character toggles quotes, with the
\* test of doublequotes left out.
TogglesQuotesInAnyTag(char) == inTag /\ char = "'"

\* The condition of the first branch of the loop: the character toggles
\* quotes.
TogglesQuotes(char) == inTag /\ ~doublequotes /\ char = "'"

\* The condition of the second branch: the character toggles doublequotes.
TogglesDoubleQuotes(char) == inTag /\ ~quotes /\ char = "\""

\* The condition of the third branch: the character ends the tag.
EndsTag(char) == inTag /\ char = ">" /\ ~quotes /\ ~doublequotes

\* The condition of the fourth branch: the character starts markup.
StartsMarkup(char) == ~inTag /\ char = "<"

\* The start of xmlParse(text): the document is the parent and the only
\* entry of the stack.
xmlParseCall(text) ==
    /\ xmlpc = "idle"
    /\ xml' = text
    /\ scanIndex' = 0
    /\ scanStart' = 0
    /\ inTag' = FALSE
    /\ quotes' = FALSE
    /\ doublequotes' = FALSE
    /\ elementStack' = <<Root>>
    /\ parentNode' = Root
    /\ xmlNodes' = <<>>
    /\ xmlpc' = "scanning"
    /\ UNCHANGED <<parseVars, stepVars, utilVars>>

\* The third branch: the tag that ends at the character at scanIndex.
TagEnd ==
    LET text == Slice(xml, scanStart, scanIndex)
        first == IF text = <<>> THEN "" ELSE Head(text)
    IN  /\ IF first = "/"
           THEN /\ elementStack' = Pop(elementStack)
                /\ parentNode' = Top(Pop(elementStack))
                /\ xmlNodes' = xmlNodes
                /\ xmlpc' = "scanning"
           ELSE IF first \in {"?", "!"}
           THEN /\ UNCHANGED <<elementStack, parentNode, xmlNodes>>
                /\ xmlpc' = "scanning"
           ELSE IF TagNameLen(text) = 0 \/ parentNode = UndefinedNode
           THEN /\ UNCHANGED <<elementStack, parentNode, xmlNodes>>
                /\ xmlpc' = "thrown"
           ELSE LET node == Len(xmlNodes) + 1
                IN  /\ xmlNodes' = Append(xmlNodes,
                                          XmlElement(SubSeq(text, 1, TagNameLen(text)), parentNode))
                    /\ IF regexEmpty(text)
                       THEN UNCHANGED <<elementStack, parentNode>>
                       ELSE /\ parentNode' = node
                            /\ elementStack' = Append(elementStack, node)
                    /\ xmlpc' = "scanning"
        /\ IF xmlpc' = "thrown"
           THEN UNCHANGED <<scanIndex, scanStart, inTag, quotes, doublequotes>>
           ELSE /\ scanStart' = scanIndex + 1
                /\ inTag' = FALSE
                /\ quotes' = FALSE
                /\ doublequotes' = FALSE
                /\ scanIndex' = scanIndex + 1

\* The section that starts at scanIndex (offset: the length of its opener
\* after '<', terminator its end): where its end was found, its content
\* and how far i is moved.
Section(opener, terminator) ==
    LET endTagIndex == IndexOf(SliceFrom(xml, scanIndex + opener + 1), terminator)
        content == Slice(xml, scanIndex + opener + 1, scanIndex + endTagIndex + opener + 1)
    IN  [endTagIndex |-> endTagIndex,
         content |-> content,
         skip |-> endTagIndex + opener + Len(terminator)]

\* The fourth branch: the text before the '<' at scanIndex becomes a text
\* node; a comment, a CDATA section or a DOCTYPE declaration is taken as a
\* whole; any other '<' starts a tag.
MarkupStart ==
    LET text == Slice(xml, scanStart, scanIndex)
        withText == text /= <<>> /\ parentNode /= Root
        nodes1 == IF withText THEN Append(xmlNodes, XmlText(text, parentNode)) ELSE xmlNodes
        comment == Section(3, <<"-", "-", ">">>)
        cdata == Section(8, <<"]", "]", ">">>)
        doctype == Section(8, <<">">>)
        dtdValue == trimStart(doctype.content)
        kindOf == IF Slice(xml, scanIndex + 1, scanIndex + 4) = <<"!", "-", "-">> THEN "comment"
                  ELSE IF Slice(xml, scanIndex + 1, scanIndex + 9) = CDATAOPEN THEN "cdata"
                  ELSE IF Slice(xml, scanIndex + 1, scanIndex + 9) = DOCTYPEOPEN THEN "doctype"
                  ELSE "tag"
        found == CASE kindOf = "comment" -> comment.endTagIndex /= 0
                   [] kindOf = "cdata" -> cdata.endTagIndex /= 0
                   [] kindOf = "doctype" -> doctype.endTagIndex /= 0
                   [] OTHER -> FALSE
    IN  IF parentNode = UndefinedNode /\ (withText \/ found)
        THEN /\ xmlpc' = "thrown"
             /\ UNCHANGED <<scanIndex, scanStart, inTag, quotes, doublequotes,
                            elementStack, parentNode, xmlNodes>>
        ELSE LET moved ==
                     CASE kindOf = "comment" /\ found -> scanIndex + comment.skip
                       [] kindOf = "cdata" /\ found -> scanIndex + cdata.skip
                       [] kindOf = "doctype" /\ found ->
                              scanIndex + doctype.endTagIndex + Len(dtdValue) + 5
                       [] OTHER -> scanIndex
                 created ==
                     CASE kindOf = "comment" /\ found -> <<XmlComment(comment.content, parentNode)>>
                       [] kindOf = "cdata" /\ found -> <<XmlCDATASection(cdata.content, parentNode)>>
                       [] kindOf = "doctype" /\ found ->
                              IF IsXslText(nodes1, parentNode)
                              THEN <<XmlText(DOCTYPETEXT \o dtdValue \o <<">">>, parentNode)>>
                              ELSE <<XmlDTDSection(dtdValue, parentNode)>>
                       [] OTHER -> <<>>
             IN  /\ xmlNodes' = nodes1 \o created
                 /\ inTag' = (kindOf = "tag")
                 /\ scanStart' = moved + 1
                 /\ scanIndex' = moved + 1
                 /\ xmlpc' = "scanning"
                 /\ UNCHANGED <<quotes, doublequotes, elementStack, parentNode>>

\* One pass of the loop of xmlParse: the character at scanIndex.
ScanChar ==
    /\ xmlpc = "scanning"
    /\ scanIndex < Len(xml)
    /\ LET char == xml[scanIndex + 1]
       IN  IF TogglesQuotes(char)
           THEN /\ quotes' = ~quotes
                /\ scanIndex' = scanIndex + 1
                /\ UNCHANGED <<scanStart, inTag, doublequotes, elementStack, parentNode,
                               xmlNodes, xmlpc>>
           ELSE IF TogglesDoubleQuotes(char)
           THEN /\ doublequotes' = ~doublequotes
                /\ scanIndex' = scanIndex + 1
                /\ UNCHANGED <<scanStart, inTag, quotes, elementStack, parentNode,
                               xmlNodes, xmlpc>>
           ELSE IF EndsTag(char) THEN TagEnd
           ELSE IF StartsMarkup(char) THEN MarkupStart
           ELSE /\ scanIndex' = scanIndex + 1
                /\ UNCHANGED <<scanStart, inTag, quotes, doublequotes, elementStack,
                               parentNode, xmlNodes, xmlpc>>
    /\ xml' = xml
    /\ UNCHANGED <<parseVars, stepVars, utilVars>>

\* The end of the loop: return root.
xmlParseReturn ==
    /\ xmlpc = "scanning"
    /\ scanIndex >= Len(xml)
    /\ xmlpc' = "returned"
    /\ UNCHANGED <<xml, scanIndex, scanStart, inTag, quotes, doublequotes, elementStack,
                   parentNode, xmlNodes>>
    /\ UNCHANGED <<parseVars, stepVars, utilVars>>

\* The texts of at most n pieces.
RECURSIVE Joined(_, _)
Joined(pieces, n) ==
    IF n = 0 THEN {<<>>}
    ELSE LET shorter == Joined(pieces, n - 1)
         IN  shorter \cup {t \o p : t \in shorter, p \in pieces}

\* Largest number of pieces of a document.
MaxPieces == 3

\* Tags, text and markup sections.
XmlPieces ==
    { <<"<", "a", ">">>,
      <<"<", "/", "a", ">">>,
      <<"<", "a", "/", ">">>,
      <<"t">>,
      <<"<", "!", "-", "-", "c", "-", "-", ">">>,
      <<"<", "!", "-", "-", "-", "-", ">">>,
      <<"<", "!", "[", "C", "D", "A", "T", "A", "[", "c", "]", "]", ">">>,
      <<"<", "!", "[", "C", "D", "A", "T", "A", "[", "]", "]", ">">>,
      <<"<", "!", "D", "O", "C", "T", "Y", "P", "E", " ", "c", ">">>,
      <<"<", "!", "D", "O", "C", "T", "Y", "P", "E", " ", "h", "t", "m", "l", ">">>,
      <<"<", "!", "D", "O", "C", "T", "Y", "P", "E", " ", "a", "b", "c", "d", "e", "f", ">">> }

ParseXml ==
    /\ xmlpc = "idle"
    /\ \E text \in Joined(XmlPieces, MaxPieces) : xmlParseCall(text)

NextXml == ParseXml \/ ScanChar \/ xmlParseReturn

SpecXml == InitParse /\ [][NextXml]_vars

\* Largest number of pieces of a text of tag openers, quotes and '>'.
MaxTagPieces == 6

TagPieces == {<<"<", "a">>, <<">">>, <<"'">>, <<"\"">>}

ParseTagText ==
    /\ xmlpc = "idle"
    /\ \E text \in Joined(TagPieces, MaxTagPieces) : xmlParseCall(text)

NextTag == ParseTagText \/ ScanChar \/ xmlParseReturn

SpecTag == InitParse /\ [][NextTag]_vars

----------------------------------------------------------------------------
(* Properties of the step engine.                                          *)

PositionalPath == \E i \in 1..Len(steps) : steps[i].hasPositionalPredicate

\* C1: on a path none of whose steps has hasPositionalPredicate, the
\* evaluation with returnOnFirstMatch collects nothing when the evaluation
\* without it collects nothing, and otherwise exactly the first node the
\* evaluation without it collects.
C1_FirstMatchIsFirstOfFull ==
    (evalpc = "first" /\ ~PositionalPath) =>
        nodesFirst = IF nodesFull = <<>> THEN <<>> ELSE <<nodesFull[1]>>

\* C2: on a path one of whose steps has hasPositionalPredicate, the
\* evaluation with returnOnFirstMatch collects the same list of nodes as the
\* evaluation without it.
C2_PositionalPathNotOptimized ==
    (evalpc = "first" /\ PositionalPath) => nodesFirst = nodesFull

\* C3: the list collected without the optimization holds no node twice and
\* is in document order.
C3_NoDuplicatesInDocumentOrder ==
    evalpc \in {"full", "first"} =>
        \A i, j \in 1..Len(nodesFull) : i < j => nodesFull[i] < nodesFull[j]

----------------------------------------------------------------------------
(* Properties of the parser.                                               *)

\* The running or finished call went through the general parser.
GeneralParser == parseCount > 0

\* C4: the general parser returns only when the token loop has ended, no
\* reduction applies and the stack holds exactly one frame; with any other
\* stack at that point (the empty one included) it throws the parse error
\* made of the fixed prefix, the text of the call and the labels of the
\* frames left on the stack.
C4_ReturnsOnlySingleFrame ==
    [][/\ pc = "finish" =>
            /\ done /\ ahead.tag = "null" /\ Candidate(stack).tag = "null"
            /\ IF Len(stack) = 1
               THEN pc' = "returned"
               ELSE /\ pc' = "thrown"
                    /\ error' = [k |-> "ParseError",
                                 prefix |-> "XPath parse error ",
                                 expression |-> cachekey,
                                 stack |-> [i \in 1..Len(stack) |-> Label(stack[i].tag)]]
       /\ (pc' = "returned" /\ pc /= "returned" /\ GeneralParser') =>
            pc = "finish" /\ Len(stack) = 1
      ]_vars

\* A white-space-only text has left the stack empty and the parse error
\* with no frame label was thrown.
C4_Witness ==
    /\ pc = "thrown"
    /\ cachekey = <<" ">>
    /\ stack = <<>>
    /\ error.k = "ParseError"
    /\ error.stack = <<>>

\* The shift/reduce rule: when a matching candidate is reduced.
MustReduce(c, ah) ==
    /\ c.tag /= "null"
    /\ \/ ah.tag = "null"
       \/ c.prec > ah.prec
       \/ TagLeft(ah.tag) /\ c.prec >= ah.prec

RECURSIVE ForwardRun(_, _, _)
ForwardRun(frames, j, tag) ==
    IF j <= Len(frames) /\ frames[j].tag = tag
    THEN 1 + ForwardRun(frames, j + 1, tag)
    ELSE 0

RECURSIVE ForwardMatch(_, _, _, _, _)
ForwardMatch(frames, pattern, i, j, args) ==
    IF i > Len(pattern) THEN [ok |-> j = Len(frames) + 1, args |-> args]
    ELSE IF i < Len(pattern) /\ pattern[i + 1] = "Q_MM"
         THEN LET n == ForwardRun(frames, j, pattern[i])
              IN  ForwardMatch(frames, pattern, i + 2, j + n,
                      Append(args, [k |-> "List",
                                    items |-> [x \in 1..n |-> frames[j + x - 1].expr]]))
    ELSE IF j <= Len(frames) /\ frames[j].tag = pattern[i]
         THEN ForwardMatch(frames, pattern, i + 1, j + 1, Append(args, frames[j].expr))
    ELSE [ok |-> FALSE, args |-> args]

\* C6: a reduction removes from the top of the stack exactly the frames the
\* candidate's whole pattern matched, pushes one frame tagged with the
\* rule's target whose expression is the rule's factory applied to the
\* expressions of the removed frames in stack order, and leaves the frames
\* below unchanged.
C6_ReduceEffect ==
    [][(pc = "reduce" /\ reduceCount' = reduceCount + 1) =>
            LET c == Candidate(stack)
                k == Len(stack) + 1 - Len(stack')
                matched == SubSeq(stack, Len(stack) - k + 1, Len(stack))
                fwd == ForwardMatch(matched, c.rule.pattern, 1, 1, <<>>)
            IN  /\ k >= 1 /\ k <= Len(stack)
                /\ k = c.match.matchlength
                /\ fwd.ok
                /\ stack'[Len(stack')].tag = c.rule.target
                /\ stack'[Len(stack')].expr = ApplyFactory(c.rule.make, fwd.args)
                /\ SubSeq(stack', 1, Len(stack') - 1) = SubSeq(stack, 1, Len(stack) - k)
      ]_vars

\* (a)[1][1] was reduced to a filter expression: the rule
\* PrimaryExpr Predicate* took three frames, two of them for the starred
\* element.
C6_Witness ==
    /\ pc = "reduce"
    /\ reduceCount > 0
    /\ Len(stack) = 1
    /\ stack[1].tag = "XPathFilterExpr"
    /\ stack[1].expr.k = "FilterExpr"
    /\ Len(stack[1].expr.predicate) = 2

\* C7: when no token rule matches the non-empty rest of the input the
\* parse fails: the general parser returns only with the whole text
\* consumed.
C7_LexFailureIsParseError ==
    (pc = "returned" /\ GeneralParser) => expression = <<>>

\* C8: the frame whose expression the general parser returns is tagged
\* with the top-level non-terminal XPathExpr.
C8_ResultIsExpr ==
    (pc = "returned" /\ GeneralParser) => stack[1].tag = "XPathExpr"

\* C9: while a call runs, and when it ends by throwing, the cache is what
\* it was when the call started; a call that returns has written exactly
\* the entry of its text, with the returned expression.
C9_CacheWrittenOnSuccessOnly ==
    /\ pc \in {"lex", "reduce", "finish", "thrown"} => xPathParseCache = cacheAtCall
    /\ pc = "returned" => xPathParseCache = CachePut(cacheAtCall, cachekey, result)

\* A call has thrown (parse error or factory error) on a parser whose
\* cache already held an entry.
C9_Witness ==
    /\ pc = "thrown"
    /\ calls = 2
    /\ DOMAIN xPathParseCache /= {}

\* C11: a call with no axis argument returns the expression tree that the
\* first such call with the same text returned, whatever calls (returning,
\* throwing, with an axis argument) were made in between.
C11_ParseDeterminism ==
    (pc = "returned" /\ axis = Undefined) => result = parsed[cachekey]

\* The third call returned the tree of a[1] again after a call with an axis
\* argument had put a rewritten tree for the same text into the cache.
C11_Witness ==
    /\ pc = "returned"
    /\ calls = 3
    /\ axis = Undefined
    /\ GeneralParser
    /\ cachekey \in DOMAIN cacheAtCall
    /\ cacheAtCall[cachekey] /= result

\* The tag of the first token rule, in table order, that matches the text.
LexedTag(rest) ==
    LET i == FirstMatchingRule(rest, 1)
    IN  IF i = 0 THEN "null" ELSE xPathTokenRules[i].tag

\* C12: a token lexed as div, mod, and or or is emitted as a QName token iff
\* no token was lexed before it or the token lexed before it is @, //, /, ::
\* or $; any other token is emitted with the tag it was lexed with, and the
\* matched text is never changed.
C12_KeywordDemotion ==
    [][pc = "lex" =>
          LET rest == SkipSpace(expression)
              lexed == LexedTag(rest)
              after == IF ahead.tag = "null" THEN "none" ELSE ahead.tag
          IN  /\ lexed = "null" <=> ahead'.tag = "null"
              /\ lexed /= "null" =>
                    /\ ahead'.expr.value \o expression' = rest
                    /\ ahead'.tag =
                         IF /\ lexed \in {"TOK_DIV", "TOK_MOD", "TOK_AND", "TOK_OR"}
                            /\ after \in {"none", "TOK_AT", "TOK_DSLASH", "TOK_SLASH",
                                          "TOK_AXIS", "TOK_DOLLAR"}
                         THEN "TOK_QNAME"
                         ELSE lexed
      ]_vars

\* In $div+1 the keyword div after $ was emitted as a QName token.
C12_Witness ==
    /\ pc = "reduce"
    /\ previous.tag = "TOK_DOLLAR"
    /\ ahead.tag = "TOK_QNAME"
    /\ ahead.expr.value = <<"d", "i", "v">>

\* C13: the token emitted is a longest match: no token rule matches a longer
\* prefix of the remaining input than the emitted token, and no empty token
\* is emitted.
C13_LongestMatch ==
    [][(pc = "lex" /\ ahead'.tag /= "null") =>
          LET rest == SkipSpace(expression)
          IN  /\ Len(ahead'.expr.value) > 0
              /\ \A tag \in TokenTags :
                     TokenMatchLen(tag, rest) <= Len(ahead'.expr.value)
      ]_vars

\* The segments of a text between its slashes.
RECURSIVE Segments(_, _)
Segments(text, seg) ==
    IF text = <<>> THEN <<seg>>
    ELSE IF Head(text) = "/" THEN <<seg>> \o Segments(Tail(text), <<>>)
    ELSE Segments(Tail(text), Append(seg, Head(text)))

IsWord(text) == text /= <<>> /\ \A i \in 1..Len(text) : text[i] \in WordChar

\* name, @name, $name, an integer, or name/name/.../name
FastPathText(text) ==
    \/ IsWord(text)
    \/ text /= <<>> /\ Head(text) \in {"@", "$"} /\ IsWord(Tail(text))
    \/ LET segs == Segments(text, <<>>) IN \A i \in 1..Len(segs) : IsWord(segs[i])

\* A name-test step without predicates.
PlainNameStep(ax, name) ==
    [k |-> "StepExpr", axis |-> ax, nodeTest |-> [k |-> "NodeTestName", name |-> name],
     predicate |-> <<>>, hasPositionalPredicate |-> FALSE]

PlainLocation(stepList) == [k |-> "LocationExpr", absolute |-> FALSE, steps |-> stepList]

RECURSIVE PathItems(_, _)
PathItems(text, name) ==
    LET flush == IF name = <<>> THEN <<>> ELSE <<name>>
    IN  IF text = <<>> THEN flush
        ELSE IF Head(text) /= "/" THEN PathItems(Tail(text), Append(name, Head(text)))
        ELSE IF Len(text) >= 2 /\ text[2] = "/"
            THEN flush \o << <<"/", "/">> >> \o PathItems(Tail(Tail(text)), <<>>)
        ELSE flush \o << <<"/">> >> \o PathItems(Tail(text), <<>>)

IsSlashItem(item) == item \in {<<"/">>, <<"/", "/">>}

\* A text of names that start with a letter, "/" and "//".
PathText(text) ==
    /\ text /= <<>>
    /\ \A i \in 1..Len(text) : text[i] \in WordChar \cup {"/"}
    /\ \A i \in 1..Len(text) :
          text[i] \in Digit => i > 1 /\ text[i - 1] \in WordChar

\* Names separated by "/" or "//", after at most one leading "/" or "//";
\* or "/" or "//" alone.
WellFormedPath(text) ==
    LET items == PathItems(text, <<>>)
    IN  \/ Len(items) = 1
        \/ /\ ~IsSlashItem(items[Len(items)])
           /\ \A i \in 1..(Len(items) - 1) : ~(IsSlashItem(items[i]) /\ IsSlashItem(items[i + 1]))

AnyNodeStep(ax) ==
    [k |-> "StepExpr", axis |-> ax, nodeTest |-> [k |-> "NodeTestAny"],
     predicate |-> <<>>, hasPositionalPredicate |-> FALSE]

\* The steps a path text stands for, left to right.
RECURSIVE PathSteps(_)
PathSteps(items) ==
    IF items = <<>> THEN <<>>
    ELSE IF Head(items) = <<"/">> THEN PathSteps(Tail(items))
    ELSE IF Head(items) = <<"/", "/">>
        THEN <<AnyNodeStep(xPathAxis.DESCENDANT_OR_SELF)>> \o PathSteps(Tail(items))
    ELSE <<PlainNameStep(xPathAxis.CHILD, Head(items))>> \o PathSteps(Tail(items))

\* C15: the steps of a parsed path are in the order of the text; each "//"
\* gives exactly one descendant-or-self::node() step right before the step
\* that follows it; "/" alone gives the absolute path of the single step
\* self::node(); a leading "/" only sets the absolute flag.
C15_StepOrder ==
    (pc \in {"returned", "thrown"} /\ axis = Undefined /\ PathText(cachekey)) =>
        LET items == PathItems(cachekey, <<>>)
        IN  /\ pc = "returned" <=> WellFormedPath(cachekey)
            /\ pc = "returned" =>
                 result = [k |-> "LocationExpr",
                           absolute |-> IsSlashItem(items[1]),
                           steps |-> IF items = << <<"/">> >>
                                         THEN <<AnyNodeStep(xPathAxis.SELF)>>
                                         ELSE PathSteps(items)]

\* A path with "//" at its start and a keyword as its name was parsed by
\* the general parser.
C15_Witness ==
    /\ pc = "returned"
    /\ GeneralParser
    /\ cachekey = <<"/", "/", "a", "n", "d">>
    /\ Len(result.steps) = 2
    /\ result.steps[2].nodeTest = [k |-> "NodeTestName", name |-> <<"a", "n", "d">>]

\* A reference to the context position in an expression, the predicates of
\* the steps nested in it left aside: a number literal, a unary minus, an
\* arithmetic operator or a call of a number-valued function.
RECURSIVE PositionalReference(_)
PositionalReference(expr) ==
    CASE expr.k = "NumberExpr" -> TRUE
      [] expr.k = "UnaryMinusExpr" -> TRUE
      [] expr.k = "FunctionCallExpr" ->
            \/ expr.name.value \in NumberFunctionNames
            \/ \E i \in 1..Len(expr.args) : PositionalReference(expr.args[i])
      [] expr.k = "BinaryExpr" ->
            \/ expr.op.value \in {<<"+">>, <<"-">>, <<"*">>, <<"d", "i", "v">>,
                                  <<"m", "o", "d">>}
            \/ PositionalReference(expr.expr1)
            \/ PositionalReference(expr.expr2)
      [] OTHER -> FALSE

\* Every step of an expression, those nested in predicates included.
RECURSIVE StepsIn(_)
StepsIn(expr) ==
    LET InPredicates(preds) == UNION {StepsIn(preds[j].expr) : j \in 1..Len(preds)}
    IN  CASE expr.k = "LocationExpr" ->
                UNION { {expr.steps[i]} \cup InPredicates(expr.steps[i].predicate) :
                            i \in 1..Len(expr.steps) }
          [] expr.k = "BinaryExpr" -> StepsIn(expr.expr1) \cup StepsIn(expr.expr2)
          [] expr.k = "UnionExpr" -> StepsIn(expr.expr1) \cup StepsIn(expr.expr2)
          [] expr.k = "UnaryMinusExpr" -> StepsIn(expr.expr)
          [] expr.k = "FunctionCallExpr" ->
                UNION {StepsIn(expr.args[i]) : i \in 1..Len(expr.args)}
          [] expr.k = "PathExpr" -> StepsIn(expr.filter) \cup StepsIn(expr.rel)
          [] expr.k = "FilterExpr" -> StepsIn(expr.expr) \cup InPredicates(expr.predicate)
          [] OTHER -> {}

\* The first node of the step's candidates that passes every predicate of
\* the step, each evaluated on the whole list of candidates.
FirstPassing(d, sc, s, x) ==
    LET cand == StepCandidates(d, s, x)
        pass == {i \in 1..Len(cand) :
                    \A j \in 1..Len(s.predicate) :
                        PredicateEvaluate(d, sc, s.predicate[j], cand, i)}
    IN  IF pass = {} THEN <<>>
        ELSE <<cand[CHOOSE i \in pass : \A m \in pass : i <= m]>>

\* C16: the parser sets hasPositionalPredicate on a step iff one of the
\* step's own predicates holds a positional reference outside the
\* predicates of nested steps; the steps evaluated are the parsed ones; and
\* on a path of one step xPathStep with returnOnFirstMatch takes the
\* first-match branch iff the flag of the step is false.
C16_PositionalFlag ==
    /\ pc = "returned" =>
          \A s \in StepsIn(result) :
              s.hasPositionalPredicate <=>
                  \E j \in 1..Len(s.predicate) : PositionalReference(s.predicate[j].expr)
    /\ evalpc /= "idle" => steps = result.steps
    /\ (evalpc = "first" /\ Len(steps) = 1) =>
          nodesFirst = IF steps[1].hasPositionalPredicate THEN nodesFull
                       ELSE FirstPassing(doc, scope, steps[1], input)

\* a[b][1] was parsed with the flag set and evaluated both ways on a
\* context node with a child a that has a child b.
C16_Witness ==
    /\ evalpc = "first"
    /\ cachekey = <<"a", "[", "b", "]", "[", "1", "]">>
    /\ steps[1].hasPositionalPredicate
    /\ nodesFull /= <<>>
    /\ nodesFirst = nodesFull

\* Item x comes before item y by the declared keys: the first declared key
\* on which their values differ puts x first, in the order of that key.
KeyBefore(x, y) ==
    \E k \in 1..(Len(x.key) - 1) :
        /\ \A m \in 1..(k - 1) : x.key[m].value = y.key[m].value
        /\ IF x.key[k].order = "descending"
               THEN GreaterThan(x.key[k].value, y.key[k].value)
               ELSE LessThan(x.key[k].value, y.key[k].value)

\* C17: xPathSort leaves the nodes of the context ordered by the declared
\* keys compared in key order, each ascending or descending as declared;
\* nodes with equal declared keys keep their original order; and the
\* comparator gives 0 for no two different items.
C17_StableSort ==
    sortpc = "sorted" =>
        LET n == Len(sortList)
        IN  /\ \A i \in 1..n : \E p \in 1..n : sortedNodes[p] = i
            /\ \A p, q \in 1..n :
                  p < q =>
                      /\ ~KeyBefore(sortList[q], sortList[p])
                      /\ (\A k \in 1..(Len(sortList[p].key) - 1) :
                              sortList[p].key[k].value = sortList[q].key[k].value)
                             => sortedNodes[p] < sortedNodes[q]
                      /\ sortList[p].key /= <<>> =>
                             xPathSortByKey(sortList[p], sortList[q]) /= 0

\* The precedence of a pattern element as a constituent: the one its token
\* rule declares, and 2 for a token that declares none, a non-terminal and
\* a quantifier marker.
ConstituentPrecedence(tag) ==
    IF tag \in TokenTags /\ TokenRuleOf(tag).prec > 0 THEN TokenRuleOf(tag).prec ELSE 2

\* The precedence of a token as the lookahead: the one its token rule
\* declares, and 0 when it declares none.
LookaheadPrecedence(tag) == TokenRuleOf(tag).prec

\* The candidate for the stack has the declared precedence of its rule when
\* that is >= 0, and otherwise the largest precedence of a pattern element.
CandidatePrecedence ==
    LET cand == Candidate(stack)
        elems == {ConstituentPrecedence(cand.rule.pattern[i]) :
                      i \in 1..Len(cand.rule.pattern)}
    IN  cand.tag /= "null" =>
            cand.prec = IF cand.rule.prec >= 0 THEN cand.rule.prec
                        ELSE CHOOSE m \in elems : \A x \in elems : x <= m

\* C18 as stated: the candidate's precedence is the declared one or the
\* largest of the pattern, and the lookahead token has the precedence it
\* has as a constituent.
C18_SamePrecedence ==
    pc = "reduce" =>
        /\ CandidatePrecedence
        /\ ahead.tag /= "null" => ahead.prec = ConstituentPrecedence(ahead.tag)

\* C18 as amended: the candidate's precedence is the declared one or the
\* largest of the pattern; a token that declares a precedence has it both
\* as a constituent and as the lookahead; a token that declares none has 2
\* as a constituent and 0 as the lookahead.
C18_EffectivePrecedence ==
    pc = "reduce" =>
        /\ CandidatePrecedence
        /\ ahead.tag /= "null" =>
              /\ ahead.prec = LookaheadPrecedence(ahead.tag)
              /\ ahead.prec = IF TokenRuleOf(ahead.tag).prec > 0
                                  THEN ConstituentPrecedence(ahead.tag)
                                  ELSE 0

\* An argument after a comma is the candidate of a rule without declared
\* precedence, with another comma as the lookahead: the comma counts 2 in
\* the candidate and 0 as the lookahead.
C18_Witness ==
    /\ pc = "reduce"
    /\ ahead.tag = "TOK_COMMA"
    /\ Candidate(stack).tag = "XPathArgumentRemainder"
    /\ Candidate(stack).rule.prec < 0
    /\ Candidate(stack).prec = 2
    /\ ahead.prec = 0

GrammarTags == TokenTags \cup NonTerminalTags

\* For each tag, the targets of the rules whose pattern matches a stack of
\* the one frame of that tag: the reductions that keep the stack's length.
UnitTargets ==
    [tag \in GrammarTags |->
        { xPathGrammarRules[i].target :
              i \in { j \in 1..Len(xPathGrammarRules) :
                          xPathMatchStack(<<Frame(tag, 0, Null)>>,
                                          xPathGrammarRules[j].pattern).matchlength = 1 } }]

\* Length of the longest chain of such reductions from a tag, cut at fuel.
RECURSIVE UnitHeight(_, _)
UnitHeight(tag, fuel) ==
    IF fuel = 0 \/ UnitTargets[tag] = {} THEN 0
    ELSE LET below == {UnitHeight(t, fuel - 1) : t \in UnitTargets[tag]}
         IN  1 + CHOOSE m \in below : \A x \in below : x <= m

UnitRank == [tag \in GrammarTags |-> UnitHeight(tag, Cardinality(GrammarTags))]

\* C19: a step of the token loop takes at least one character off the
\* remaining text or ends the loop; a reduction shortens the stack or, when
\* it keeps its length, moves the top frame down a chain of unit reductions
\* that has an end, no chain of them leading back to its start.
C19_ParseTerminates ==
    [][/\ pc = "lex" => (Len(expression') < Len(expression) \/ done')
       /\ (pc = "reduce" /\ pc' = "reduce") =>
             \/ Len(stack') < Len(stack)
             \/ /\ Len(stack') = Len(stack)
                /\ UnitRank[stack'[Len(stack')].tag] < UnitRank[stack[Len(stack)].tag]
       /\ \A tag \in GrammarTags : UnitRank[tag] < Cardinality(GrammarTags)]_vars

\* Three reductions in a row left the stack at one frame after the second
\* token was read.
C19_Witness ==
    /\ pc = "reduce"
    /\ parseCount = 2
    /\ reduceCount >= 3
    /\ Len(stack) = 1

\* The elements of a pattern, left to right: the tag and the quantifier
\* that follows it, "none" when none does.
RECURSIVE ElementsOf(_)
ElementsOf(pattern) ==
    IF pattern = <<>> THEN <<>>
    ELSE IF Len(pattern) >= 2 /\ pattern[2] \in Quantifiers
        THEN <<[tag |-> pattern[1], q |-> pattern[2]]>> \o ElementsOf(Tail(Tail(pattern)))
    ELSE <<[tag |-> pattern[1], q |-> "none"]>> \o ElementsOf(Tail(pattern))

\* Number of frames of the items from the i-th on.
RECURSIVE FramesFrom(_, _)
FramesFrom(items, i) ==
    IF i > Len(items) THEN 0 ELSE Len(items[i].frames) + FramesFrom(items, i + 1)

\* C20: in a match every pattern element has its item, the items are the
\* top frames of the stack in order, each frame has the tag of its
\* element; a plain element has one frame, a '?' element none or one, a
\* '+' element at least one, a '*' element any number; and the run of a
\* quantified element is maximal: the frame below it has another tag,
\* unless a '?' element has its one frame.
C20_QuantifierBounds ==
    (matchpc = "matched" /\ matchResult.ok) =>
        LET elems == ElementsOf(matchPattern)
            items == matchResult.items
            S == Len(matchStack)
        IN  /\ Len(items) = Len(elems)
            /\ matchResult.matchlength = FramesFrom(items, 1)
            /\ FramesFrom(items, 1) <= S
            /\ \A i \in 1..Len(items) :
                  LET frames == items[i].frames
                      below == S - FramesFrom(items, i)
                  IN  /\ frames = SubSeq(matchStack, below + 1, below + Len(frames))
                      /\ \A j \in 1..Len(frames) : frames[j].tag = elems[i].tag
                      /\ CASE elems[i].q = "none" -> Len(frames) = 1
                           [] elems[i].q = "Q_01" -> Len(frames) <= 1
                           [] elems[i].q = "Q_1M" -> Len(frames) >= 1
                           [] elems[i].q = "Q_MM" -> TRUE
                      /\ (/\ elems[i].q /= "none"
                          /\ ~(elems[i].q = "Q_01" /\ Len(frames) = 1)
                          /\ below >= 1)
                             => matchStack[below].tag /= elems[i].tag

\* The node-type tests: the text, whether it is to parse, and the node
\* test of the one child-axis step it is to give.
NodeTypeCases ==
    { [text |-> <<"n", "o", "d", "e", "(", ")">>, ok |-> TRUE, test |-> [k |-> "NodeTestAny"]],
      [text |-> <<"t", "e", "x", "t", "(", ")">>, ok |-> TRUE, test |-> [k |-> "NodeTestText"]],
      [text |-> <<"c", "o", "m", "m", "e", "n", "t", "(", ")">>, ok |-> TRUE, test |-> [k |-> "NodeTestComment"]],
      [text |-> <<"p", "r", "o", "c", "e", "s", "s", "i", "n", "g", "-", "i", "n", "s", "t", "r", "u", "c", "t", "i", "o", "n", "(", ")">>, ok |-> TRUE,
       test |-> [k |-> "NodeTestPI", target |-> <<>>]],
      [text |-> <<"p", "r", "o", "c", "e", "s", "s", "i", "n", "g", "-", "i", "n", "s", "t", "r", "u", "c", "t", "i", "o", "n", "(", "'", "a", "'", ")">>, ok |-> TRUE,
       test |-> [k |-> "NodeTestPI", target |-> <<"a">>]],
      [text |-> <<"t", "e", "x", "t", "(", "'", "a", "'", ")">>, ok |-> FALSE, test |-> [k |-> "NodeTestText"]] }

\* C21: processing-instruction('a') parses to the processing-instruction
\* test with target a, processing-instruction() to the one with the empty
\* target, node(), text() and comment() to the any-node, text and comment
\* tests, and text('a') is rejected with an error.
C21_NodeTypeTests ==
    \A c \in NodeTypeCases :
        (pc \in {"returned", "thrown"} /\ axis = Undefined /\ cachekey = c.text) =>
            IF c.ok
                THEN /\ pc = "returned"
                     /\ result = [k |-> "LocationExpr", absolute |-> FALSE,
                                  steps |-> <<[k |-> "StepExpr", axis |-> xPathAxis.CHILD,
                                               nodeTest |-> c.test, predicate |-> <<>>,
                                               hasPositionalPredicate |-> FALSE]>>]
                ELSE pc = "thrown"

\* The rules of a bin that match a stack with a non-empty match.
MatchingRules(ruleset, stk) ==
    {i \in 1..Len(ruleset) :
        LET m == xPathMatchStack(stk, ruleset[i].pattern)
        IN  m.ok /\ Len(m.items) > 0}

\* The position in the grammar table of a rule.
TableIndex(rule) == CHOOSE i \in 1..Len(xPathGrammarRules) : xPathGrammarRules[i] = rule

\* Longest pattern first, ties in table order.
RuleBefore(r1, r2) ==
    \/ Len(r1.pattern) > Len(r2.pattern)
    \/ Len(r1.pattern) = Len(r2.pattern) /\ TableIndex(r1) < TableIndex(r2)

\* The lookahead test of xPathReduce applied to a rule.
RulePasses(rule, ah) ==
    \/ ah.tag = "null"
    \/ xPathGrammarPrecedence(rule) > ah.prec
    \/ TagLeft(ah.tag) /\ xPathGrammarPrecedence(rule) >= ah.prec

\* C22: in one reduce attempt the only candidate examined is the first rule
\* (longest pattern first, ties in table order) of the bin of the top frame's
\* tag whose pattern matches the stack; when it fails the precedence test the
\* lookahead is shifted, whatever other rules of the bin match and would pass.
C22_FirstCandidateOnly ==
    [][(pc = "reduce" /\ Len(stack) > 0) =>
            LET bin == xPathRules(stack[Len(stack)].tag)
                matching == MatchingRules(bin, stack)
            IN  IF matching = {}
                THEN stack' = IF ahead.tag /= "null" THEN Append(stack, ahead) ELSE stack
                ELSE LET first == CHOOSE i \in matching :
                                      \A j \in matching \ {i} : RuleBefore(bin[i], bin[j])
                     IN  /\ Candidate(stack).rule = bin[first]
                         /\ IF RulePasses(bin[first], ahead)
                            THEN \/ pc' = "thrown"
                                 \/ /\ reduceCount' = reduceCount + 1
                                    /\ stack'[Len(stack')].tag = bin[first].target
                            ELSE /\ reduceCount' = reduceCount
                                 /\ stack' = Append(stack, ahead)
      ]_vars

\* A reduce attempt in which the first matching rule fails the test while a
\* later rule of the same bin matches too.
C22_Witness ==
    /\ pc = "reduce"
    /\ Len(stack) > 0
    /\ LET bin == xPathRules(stack[Len(stack)].tag)
           matching == MatchingRules(bin, stack)
       IN  /\ matching /= {}
           /\ ~RulePasses(Candidate(stack).rule, ahead)
           /\ \E j \in matching : bin[j] /= Candidate(stack).rule

\* The tags of a stack a pattern matches, each quantified element taken n
\* times ('?' at most once, '+' at least once).
RECURSIVE ExpandPattern(_, _, _)
ExpandPattern(pattern, j, n) ==
    IF j > Len(pattern) THEN <<>>
    ELSE IF j < Len(pattern) /\ pattern[j + 1] \in {"Q_1M", "Q_MM", "Q_01"}
         THEN LET times == IF pattern[j + 1] = "Q_01" THEN (IF n > 1 THEN 1 ELSE n)
                           ELSE IF pattern[j + 1] = "Q_1M" THEN (IF n < 1 THEN 1 ELSE n)
                           ELSE n
              IN  [k \in 1..times |-> pattern[j]] \o ExpandPattern(pattern, j + 2, n)
    ELSE <<pattern[j]>> \o ExpandPattern(pattern, j + 1, n)

\* A stack of frames with the given tags.
StackOfTags(tags) == [k \in 1..Len(tags) |-> Frame(tags[k], 0, Null)]

\* Whether the pattern of a rule matches the stack with a non-empty match.
RuleMatches(rule, stk) ==
    LET m == xPathMatchStack(stk, rule.pattern)
    IN  m.ok /\ Len(m.items) > 0

\* Whether the bin of the top frame's tag holds the rule.
InBinOfTop(rule, stk) ==
    \E b \in 1..Len(xPathRules(stk[Len(stk)].tag)) : xPathRules(stk[Len(stk)].tag)[b] = rule

MaxRepeats == 2

\* Every rule is in the bin of the top tag of the stacks its pattern
\* matches, the quantified elements taken 0 to MaxRepeats times.
ExpansionsBinned ==
    \A i \in 1..Len(SortedGrammarRules) : \A n \in 0..MaxRepeats :
        LET stk == StackOfTags(ExpandPattern(SortedGrammarRules[i].pattern, 1, n))
        IN  /\ stk /= <<>>
            /\ RuleMatches(SortedGrammarRules[i], stk)
            /\ InBinOfTop(SortedGrammarRules[i], stk)

\* xPathParseInit on the initialised instance leaves every bin as it is.
SecondInitAddsNothing == xPathParseInit(xPathRulesTable) = xPathRulesTable

\* C23: once the parser is initialised and reduces, a grammar rule whose
\* pattern matches a stack is in the bin of the top frame's tag, also when trailing '*' or '?' elements are matched zero
\* times; the binned lookup finds the candidate a scan of the whole
\* length-sorted table finds; and a second xPathParseInit leaves every bin
\* as it is.
C23_BinCompleteness ==
    (pc = "reduce" /\ Len(stack) > 0) =>
        /\ ExpansionsBinned
        /\ \A i \in 1..Len(SortedGrammarRules) :
               RuleMatches(SortedGrammarRules[i], stack) =>
                   InBinOfTop(SortedGrammarRules[i], stack)
        /\ Candidate(stack) = findGrammarRuleCandidate(SortedGrammarRules, stack, 1)
        /\ SecondInitAddsNothing

\* A reduce attempt on a stack matched by a rule whose trailing '*' element
\* takes no frame: the filter rule on a lone primary expression.
C23_Witness ==
    /\ pc = "reduce"
    /\ Len(stack) > 0
    /\ stack[Len(stack)].tag = "XPathPrimaryExpr"
    /\ Candidate(stack).tag = "XPathFilterExpr"
    /\ Candidate(stack).match.matchlength = 1

\* The expression of an operand of a chain: a number, or a name as a
\* relative path of one child step.
ChainOperand(ch) ==
    IF ch \in {"1", "2", "3"} THEN NumberExpr(<<ch>>)
    ELSE PlainLocation(<<PlainNameStep(xPathAxis.CHILD, <<ch>>)>>)

\* What the chain a op1 b op2 c is to parse to: grouped to the left when
\* op1 has the higher precedence, or the same precedence with op2 among
\* + - * div mod; grouped to the right otherwise.
ChainExpected(op1, op2, o) ==
    LET p1 == TokenRuleOf(op1.tag).prec
        p2 == TokenRuleOf(op2.tag).prec
        leftOperators == {"TOK_PLUS", "TOK_MINUS", "TOK_ASTERISK", "TOK_DIV", "TOK_MOD"}
    IN  IF p1 > p2 \/ (p1 = p2 /\ op2.tag \in leftOperators)
        THEN BinaryExpr(BinaryExpr(ChainOperand(o[1]), TokenExpr(op1.text), ChainOperand(o[2])),
                        TokenExpr(op2.text), ChainOperand(o[3]))
        ELSE BinaryExpr(ChainOperand(o[1]), TokenExpr(op1.text),
                        BinaryExpr(ChainOperand(o[2]), TokenExpr(op2.text), ChainOperand(o[3])))

\* C24: a chain a op1 b op2 c of binary operators parses to (a op1 b) op2 c
\* when the precedences are equal and op2 is left-associative (+, -, *, div,
\* mod), to a op1 (b op2 c) when they are equal and op2 is not; with
\* different precedences the operator of the higher precedence binds tighter.
C24_Associativity ==
    \A op1, op2 \in BinaryOperators : \A o \in ChainOperands :
        (pc \in {"returned", "thrown"} /\ axis = Undefined /\ cachekey = ChainText(op1, op2, o)) =>
            /\ pc = "returned"
            /\ result = ChainExpected(op1, op2, o)

\* The relative location paths of the model that do not start with '*',
\* with the axes written in the text.
RelativePathCases ==
    { [text |-> <<"a">>, axes |-> <<xPathAxis.CHILD>>],
      [text |-> <<"a", "/", "b">>, axes |-> <<xPathAxis.CHILD, xPathAxis.CHILD>>],
      [text |-> <<"a", "[", "1", "]">>, axes |-> <<xPathAxis.CHILD>>],
      [text |-> <<"a", "/", "b", "[", "1", "]">>, axes |-> <<xPathAxis.CHILD, xPathAxis.CHILD>>] }

\* C25: a call with an axis argument on a relative location path not
\* starting with '*' returns a Location whose first step has that axis and
\* whose later steps keep the axis written in the text; an absolute path is
\* returned with the steps a call without axis gives.
C25_AxisArgument ==
    (pc = "returned" /\ axis /= Undefined) =>
        /\ \A c \in RelativePathCases :
               cachekey = c.text =>
                   /\ result.k = "LocationExpr"
                   /\ Len(result.steps) = Len(c.axes)
                   /\ result.steps[1].axis = axis
                   /\ \A i \in 2..Len(c.axes) : result.steps[i].axis = c.axes[i]
        /\ cachekey = <<"/", "a">> =>
               /\ result.k = "LocationExpr"
               /\ result.absolute
               /\ result.steps = <<PlainNameStep(xPathAxis.CHILD, <<"a">>)>>

\* C26: on every text a fast path takes, the general parser succeeds too
\* and builds the expression the fast path returns.
C26_FastPathsAgree ==
    (pc \in {"returned", "thrown"} /\ (IsSimpleExpr(cachekey) \/ IsSimpleExpr2(cachekey))) =>
        /\ pc = "returned"
        /\ result = FastPathValue(cachekey)

\* context.nodeList before the call of xPathSort.
NodeListBefore == [i \in 1..Len(sortList) |-> sortList[i].node]

\* How often a node occurs in a list.
CountIn(list, x) == Cardinality({i \in 1..Len(list) : list[i] = x})

SameMultiplicity(l1, l2) ==
    /\ Len(l1) = Len(l2)
    /\ \A x \in 1..MaxContextNodes : CountIn(l1, x) = CountIn(l2, x)

TagTextAtEnd ==
    IF /\ xmlpc = "scanning"
       /\ scanIndex < Len(xml)
       /\ inTag /\ ~quotes /\ ~doublequotes
       /\ xml[scanIndex + 1] = ">"
    THEN <<Slice(xml, scanStart, scanIndex)>>
    ELSE <<>>

\* C28: after every character processed by xmlParse the parent is the top
\* of the element stack and the stack is not empty, the document at its
\* bottom; a start tag pushes the element it creates, an empty-element tag
\* pushes nothing, an end tag pops one element and never the document, and
\* nothing else changes the stack.
C28_ElementStack ==
    [][(xmlpc = "scanning" /\ scanIndex < Len(xml)) =>
            /\ Len(elementStack') > 0
            /\ elementStack'[1] = Root
            /\ parentNode' = elementStack'[Len(elementStack')]
            /\ IF TagTextAtEnd = <<>> \/ xmlpc' = "thrown"
               THEN elementStack' = elementStack
               ELSE LET text == TagTextAtEnd[1]
                    IN  IF text /= <<>> /\ Head(text) = "/"
                        THEN /\ Len(elementStack) > 1
                             /\ elementStack' = SubSeq(elementStack, 1, Len(elementStack) - 1)
                        ELSE IF text /= <<>> /\ Head(text) \in {"?", "!"}
                        THEN elementStack' = elementStack
                        ELSE /\ Len(xmlNodes') = Len(xmlNodes) + 1
                             /\ xmlNodes'[Len(xmlNodes')].kind = "element"
                             /\ xmlNodes'[Len(xmlNodes')].parent = parentNode
                             /\ IF text[Len(text)] = "/"
                                THEN elementStack' = elementStack
                                ELSE elementStack' = Append(elementStack, Len(xmlNodes'))
      ]_vars

\* The quoting at the end of the text of a tag, read from its start: a
\* quote opens a value, the next quote of the same kind closes it.
RECURSIVE QuotingFrom(_, _, _)
QuotingFrom(text, k, quoting) ==
    IF k > Len(text) THEN quoting
    ELSE QuotingFrom(text, k + 1,
             CASE quoting = "none" /\ text[k] = "'" -> "single"
               [] quoting = "none" /\ text[k] = "\"" -> "double"
               [] quoting = "single" /\ text[k] = "'" -> "none"
               [] quoting = "double" /\ text[k] = "\"" -> "none"
               [] OTHER -> quoting)

\* C29: in a tag, a '>' inside a single- or double-quoted value does not
\* end the tag, and a quote of the other kind inside a quoted value neither
\* opens nor closes quoting; the first '>' outside quotes ends the tag and
\* clears the tag flag and both quote flags; outside tags a quote character
\* changes nothing of the scanner state.
C29_Quoting ==
    [][(xmlpc = "scanning" /\ scanIndex < Len(xml)) =>
            LET char == xml[scanIndex + 1]
                quoting == QuotingFrom(Slice(xml, scanStart, scanIndex), 1, "none")
            IN  IF inTag
                THEN /\ quotes = (quoting = "single")
                     /\ doublequotes = (quoting = "double")
                     /\ IF char = ">" /\ quoting = "none"
                        THEN \/ xmlpc' = "thrown"
                             \/ /\ ~inTag' /\ ~quotes' /\ ~doublequotes'
                                /\ scanStart' = scanIndex + 1
                        ELSE /\ inTag'
                             /\ scanStart' = scanStart
                             /\ UNCHANGED <<elementStack, parentNode, xmlNodes>>
                             /\ (quoting = "single" /\ char = "\"") => (quotes' /\ ~doublequotes')
                             /\ (quoting = "double" /\ char = "'") => (doublequotes' /\ ~quotes')
                ELSE char \in {"'", "\""} =>
                         UNCHANGED <<inTag, quotes, doublequotes, scanStart, elementStack,
                                     parentNode, xmlNodes>>
      ]_vars

\* The tag <a'">'> has been scanned to its end: the '>' and the double quote
\* inside the single-quoted value did not end it, the last '>' did.
C29_Witness ==
    /\ xmlpc = "returned"
    /\ xml = <<"<", "a", "'", "\"", ">", "'", ">">>
    /\ ~inTag /\ ~quotes /\ ~doublequotes
    /\ scanStart = 7
    /\ elementStack = <<Root, 1>>
    /\ xmlNodes = <<XmlElement(<<"a">>, Root)>>

\* The 0-based index right after the first occurrence of the terminator at
\* or after index from, or 0 when there is none.
AfterTerminator(terminator, from) ==
    LET ends == {j \in (from + Len(terminator))..Len(xml) :
                     SubSeq(xml, j - Len(terminator) + 1, j) = terminator}
    IN  IF ends = {} THEN 0 ELSE CHOOSE j \in ends : \A k \in ends : j <= k

\* Where the terminated comment, CDATA section or DOCTYPE declaration that
\* starts at scanIndex ends (the index right after its terminator), or 0
\* when no such section starts there.
SectionEnd ==
    IF IsPrefix(<<"<", "!", "-", "-">>, SliceFrom(xml, scanIndex))
    THEN AfterTerminator(<<"-", "-", ">">>, scanIndex + 4)
    ELSE IF IsPrefix(<<"<">> \o CDATAOPEN, SliceFrom(xml, scanIndex))
    THEN AfterTerminator(<<"]", "]", ">">>, scanIndex + 9)
    ELSE IF IsPrefix(<<"<">> \o DOCTYPEOPEN, SliceFrom(xml, scanIndex))
    THEN AfterTerminator(<<">">>, scanIndex + 9)
    ELSE 0

\* C30: a terminated comment, CDATA section or DOCTYPE declaration met in
\* text is consumed as a whole: the scan goes on at the character right
\* after its terminator, outside any tag, with no character of the section
\* left for a text node and none after it skipped.
C30_MarkupSections ==
    [][(xmlpc = "scanning" /\ scanIndex < Len(xml) /\ ~inTag /\ SectionEnd > 0) =>
            \/ xmlpc' = "thrown"
            \/ /\ scanIndex' = SectionEnd
               /\ scanStart' = SectionEnd
               /\ ~inTag'
      ]_vars

\* C10: a call with an axis argument leaves the cache as it was.
C10_AxisCallLeavesCache ==
    (pc = "returned" /\ axis /= Undefined) => xPathParseCache = cacheAtCall

====
